---- MODULE Spec2Model ----
(***************************************************************************)
(* browser_tail: the log store (internal/logger/file_manager.go), the      *)
(* per-tab monitor (internal/monitor/tab_monitor.go) and the session       *)
(* manager's target handlers (internal/cdp/manager.go) as one state        *)
(* machine.                                                                *)
(*                                                                         *)
(* Granularity.  Every region guarded by a mutex that is released before   *)
(* the next blocking point is one atomic step: the body of getWriter (the  *)
(* RLock probe followed by the Lock/double-check/create is equivalent to   *)
(* one get-or-create at the moment the write lock is taken), the map       *)
(* removal of CloseTab/CloseAllForTab/Close, and every critical section    *)
(* under a tabWriter's mutex.  Steps of different goroutines interleave    *)
(* freely between those regions.  The monitor's RWMutex is held across     *)
(* several store calls by HandleSiteChange and is therefore a variable.    *)
(***************************************************************************)
EXTENDS Integers, Sequences, FiniteSets, TLC

\* ------------------------------------------------------------------ bounds
MaxTimers == 2          \* time.Timer objects alive at once
MaxWriters == 3         \* tabWriter objects ever created
MaxIOFail == 1          \* I/O errors the operating system injects
MaxOps == 4             \* store operations started by the store's clients
SmallRec == 3000        \* bytes of a short serialized record
LargeRec == 7000        \* bytes of a long serialized record
MaxNav == 1             \* navigations of the tab
MaxTabEvents == 2       \* other CDP events of the tab
MaxGen == 2             \* tab ids the registry's clients make GenerateTabID produce
MaxConnects == 2      \* connections the manager establishes
MaxAttempts == 6      \* calls of connect
MaxMonitors == 4      \* monitors alive at a time
MaxChromeEvents == 2  \* things Chrome and its user do
MaxRequests == 1      \* network requests of the page
MaxTokens == 3        \* tokens of a generated response body
MaxChars == 4         \* characters of a generated host name or URL

\* --------------------------------------------------------------- constants
DefaultBufferSize == 8 * 1024

NoWriter == 0           \* a nil *tabWriter
NoTimer == 0            \* a nil *time.Timer

TabIDs == {"tab-1", "tab-2"}
Sites == {"a.com", "b.com"}
Clients == {"c1", "c2"}
StoreKeys == {<<"tab-1", "a.com">>}   \* the keys the store's clients use
TabThreads == {"listener", "start", "dispatch", "body"}
MgrThreads == {"main"}   \* the goroutine running Manager.Start
Threads == (Clients \cup TabThreads) \cup MgrThreads

\* event types, split at the first dot: <<prefix, name>>
EventMetaSessionStart == <<"meta", "session_start">>
EventMetaTabCreated == <<"meta", "tab_created">>
EventMetaTabClosed == <<"meta", "tab_closed">>
EventMetaSiteChanged == <<"meta", "site_changed">>
EventMetaSiteEntered == <<"meta", "site_entered">>
EventPageNavigate == <<"page", "navigate">>
EventPageLoad == <<"page", "load">>
EventConsoleLog == <<"console", "log">>
EventNetworkRequest == <<"network", "request">>
EventNetworkResponse == <<"network", "response">>
EventNetworkResponseBody == <<"network", "response_body">>
EventNetworkFailure == <<"network", "failure">>

VARIABLES
    fm,         \* the FileManager and everything it owns (see InitFM)
    ioBudget,   \* I/O errors the operating system may still inject
    pc,         \* per goroutine: where it stands
    ltw,        \* per goroutine: the *tabWriter it holds (local tw)
    lev,        \* per goroutine: the event it is writing
    lset,       \* per goroutine: the writers it still has to close
    acked,      \* history: <<record, writer>> of every WriteEvent that returned nil
    nops,       \* store operations started so far
    m,          \* the Manager: tabMonitors
    tm,         \* the TabMonitor of the target (see NewTabMonitor)
    tmMu,       \* the goroutine holding tm.mu for writing ("": nobody)
    listening,  \* the ListenTarget callback of Start is registered and live
    br,         \* the browser: the target's state and URL, events produced
    qMgr,       \* target-domain events not yet handled by the manager's listener
    qTab,       \* the target's CDP events not yet handled by handleEvent
    reg,        \* the TabRegistry: targetToTab
    tabCounter, \* the process-wide counter of GenerateTabID
    rpc,        \* per registry client: where it stands in a registry call
    rhist,      \* history: target -> the tab ids GetOrCreateTabID returned for it
    chrome,     \* Chrome: up or not, its open pages, the target ids it used
    mg,         \* the Manager: tabMonitors, internalTargetID, browserCtx, connected
    mons,       \* every TabMonitor handleNewTarget created, in order
    mst,        \* the goroutine of Manager.Start: position, retryWait, initialTabs
    bg,         \* the listener and the cleanup goroutine of connect
    mq,         \* target events Chrome sent, not yet handled by the listener
    mlog,       \* history: <<target, kind>> of the meta records written
    ctxDone,    \* the context given to Manager.Start is cancelled
    nev         \* things Chrome and its user did so far

tabVars == <<m, tm, tmMu, listening, br, qMgr, qTab>>

regVars == <<reg, tabCounter, rpc, rhist>>

\* what the log store and the one-tab model never touch
mgrVars == <<chrome, mg, mons, mst, bg, mq, mlog, ctxDone, nev>>

extVars == <<regVars, mgrVars>>

coreVars == <<fm, ioBudget, pc, ltw, lev, lset, acked, nops, tabVars>>

vars == <<fm, ioBudget, pc, ltw, lev, lset, acked, nops, m, tm, tmMu, listening, br, qMgr, qTab,
          reg, tabCounter, rpc, rhist, chrome, mg, mons, mst, bg, mq, mlog, ctxDone, nev>>

\* ------------------------------------------------------------- log records
NewLogEvent(site, tabID, eventType, data, sz) ==
    [site |-> site, tab_id |-> tabID, event_type |-> eventType, data |-> data, sz |-> sz]

NoEvent == NewLogEvent("", "", <<"", "">>, 0, 0)

\* a key that forgets the site: all sites of a tab would share one file
fileKeyTabOnly(tabID, site) == <<tabID, "a.com">>

fileKey(tabID, site) == <<tabID, site>>

SessionKey == fileKey("_session", "_meta")   \* the file of the session record

Keys == {fileKey(t, s) : t \in TabIDs, s \in Sites} \cup {SessionKey}

\* ------------------------------------------------------------- FileManager
\* fm.files   : key -> writer id (NoWriter: no entry)
\* fm.tws     : the tabWriter objects ever created, by id
\* fm.disk    : key -> the records that reached the operating system's file
\* fm.synced  : key -> how many of them the last fsync covered
\* fm.timers  : timer id -> [tw, st], st in free / armed / fired (callback
\*              started, not yet inside the writer's mutex)
\* fm.log     : history: the records of all files in the order they reached
\*              the operating system
InitFM ==
    [files |-> [k \in Keys |-> NoWriter],
     tws |-> <<>>,
     disk |-> [k \in Keys |-> <<>>],
     synced |-> [k \in Keys |-> 0],
     log |-> <<>>,
     timers |-> [i \in 1..MaxTimers |-> [tw |-> NoWriter, st |-> "free"]]]

NewTabWriter(tabID, site) ==
    [tabID |-> tabID, site |-> site, buffered |-> 0, pend |-> <<>>,
     err |-> FALSE, closed |-> FALSE, flushTimer |-> NoTimer]

KeyOf(st, w) == fileKey(st.tws[w].tabID, st.tws[w].site)

FreeTimers(st) == {i \in 1..MaxTimers : st.timers[i].st = "free"}

LiveTimers(st, w) == {i \in 1..MaxTimers : st.timers[i].tw = w /\ st.timers[i].st # "free"}

ArmedTimers(st, w) == {i \in 1..MaxTimers : st.timers[i].tw = w /\ st.timers[i].st = "armed"}

Min(S) == CHOOSE x \in S : \A y \in S : x <= y

\* bufio.Writer.Flush on writer w; ok: the operating system accepts the write.
\* A failed write moves nothing (n = 0) and makes the error sticky.
BufFlush(st, w, ok) ==
    LET t == st.tws[w] IN
    IF t.err THEN [st |-> st, err |-> TRUE]
    ELSE IF t.buffered = 0 THEN [st |-> st, err |-> FALSE]
    ELSE IF t.closed \/ ~ok
         THEN [st |-> [st EXCEPT !.tws[w].err = TRUE], err |-> TRUE]
    ELSE [st |-> [st EXCEPT !.tws[w].buffered = 0,
                            !.tws[w].pend = <<>>,
                            !.disk[KeyOf(st, w)] = @ \o t.pend,
                            !.log = @ \o t.pend],
          err |-> FALSE]

\* bufio.Writer.Write of one serialized record of ev.sz bytes.
BufWrite(st, w, ev, ok) ==
    LET t == st.tws[w]
        avail == DefaultBufferSize - t.buffered
        k == KeyOf(st, w)
    IN
    IF t.err THEN [st |-> st, err |-> TRUE]
    ELSE IF ev.sz <= avail
         THEN [st |-> [st EXCEPT !.tws[w].buffered = @ + ev.sz,
                                 !.tws[w].pend = Append(@, ev)],
               err |-> FALSE]
    ELSE IF t.closed \/ ~ok
         \* the direct write or the inner Flush fails; on the inner Flush the
         \* buffer was filled up first
         THEN [st |-> [st EXCEPT !.tws[w].err = TRUE,
                                 !.tws[w].buffered = IF t.buffered = 0 THEN 0
                                                     ELSE DefaultBufferSize],
               err |-> TRUE]
    ELSE IF t.buffered = 0 \/ ev.sz - avail > DefaultBufferSize
         \* large write: the record goes to the file, behind what was buffered
         THEN [st |-> [st EXCEPT !.tws[w].buffered = 0,
                                 !.tws[w].pend = <<>>,
                                 !.disk[k] = (@ \o t.pend) \o <<ev>>,
                                 !.log = (@ \o t.pend) \o <<ev>>],
               err |-> FALSE]
    \* the buffer is filled and flushed; the record's tail stays buffered
    ELSE [st |-> [st EXCEPT !.tws[w].buffered = ev.sz - avail,
                            !.tws[w].pend = <<ev>>,
                            !.disk[k] = @ \o t.pend,
                            !.log = @ \o t.pend],
          err |-> FALSE]

\* os.File.Sync
FileSync(st, w, ok) ==
    IF st.tws[w].closed \/ ~ok THEN [st |-> st, err |-> TRUE]
    ELSE [st |-> [st EXCEPT !.synced[KeyOf(st, w)] = Len(st.disk[KeyOf(st, w)])],
          err |-> FALSE]

\* os.File.Close
FileClose(st, w) ==
    IF st.tws[w].closed THEN [st |-> st, err |-> TRUE]
    ELSE [st |-> [st EXCEPT !.tws[w].closed = TRUE], err |-> FALSE]

\* time.Timer.Stop: an armed timer never runs; a fired one still does
TimerStop(st, i) ==
    IF st.timers[i].st = "armed"
    THEN [st EXCEPT !.timers[i] = [tw |-> NoWriter, st |-> "free"]]
    ELSE st

cancelFlushTimer(st, w) ==
    IF st.tws[w].flushTimer # NoTimer
    THEN [TimerStop(st, st.tws[w].flushTimer) EXCEPT !.tws[w].flushTimer = NoTimer]
    ELSE st

\* a handleFlush default branch that arms no timer: what C7 rules out
scheduleFlushOmitted(st, w) == st

scheduleFlush(st, w) ==
    IF st.tws[w].flushTimer # NoTimer THEN st
    ELSE LET i == Min(FreeTimers(st)) IN
         [st EXCEPT !.timers[i] = [tw |-> w, st |-> "armed"],
                    !.tws[w].flushTimer = i]

\* a handleFlush that takes no record for a lifecycle record
isMetaNever(eventType) == FALSE

isMeta(eventType) == eventType[1] = "meta"

bufferFull(t) == t.buffered > (DefaultBufferSize * 3) \div 4

\* fail: which I/O call of the critical section the operating system fails
\* (0: none; 1: the Write; 2: the Flush; 3: the Sync)
handleFlush(st, w, eventType, fail) ==
    IF isMeta(eventType) THEN
        LET f == BufFlush(st, w, fail # 2) IN
        IF f.err THEN f
        ELSE LET s == FileSync(f.st, w, fail # 3) IN
             IF s.err THEN s
             ELSE [st |-> cancelFlushTimer(s.st, w), err |-> FALSE]
    ELSE IF bufferFull(st.tws[w]) THEN
        LET f == BufFlush(st, w, fail # 2) IN
        IF f.err THEN f
        ELSE [st |-> cancelFlushTimer(f.st, w), err |-> FALSE]
    ELSE [st |-> scheduleFlush(st, w), err |-> FALSE]

\* WriteEvent from tw.mu.Lock() to the deferred Unlock
WriteEventLocked(st, w, ev, fail) ==
    LET wr == BufWrite(st, w, ev, fail # 1) IN
    IF wr.err THEN wr
    ELSE handleFlush(wr.st, w, ev.event_type, fail)

\* the final flush/sync/close of CloseTab, from tw.mu.Lock() on
CloseTabLocked(st, w, fail) ==
    LET c == cancelFlushTimer(st, w)
        f == BufFlush(c, w, fail # 2)
    IN
    IF f.err THEN f
    ELSE LET s == FileSync(f.st, w, fail # 3) IN
         IF s.err THEN s
         ELSE FileClose(s.st, w)

\* one iteration of the closing loop of CloseAllForTab and of Close
CloseLoopLocked(st, w, fail) ==
    LET c == cancelFlushTimer(st, w)
        f == BufFlush(c, w, fail # 2)
        s == FileSync(f.st, w, fail # 3)
        x == FileClose(s.st, w)
    IN [st |-> x.st, err |-> f.err \/ s.err \/ x.err]

\* the timer callback of scheduleFlush, from tw.mu.Lock() on
flushCallback(st, i, ok) ==
    LET w == st.timers[i].tw
        f == BufFlush(st, w, ok)
    IN [f.st EXCEPT !.tws[w].flushTimer = NoTimer,
                    !.timers[i] = [tw |-> NoWriter, st |-> "free"]]

\* ---------------------------------------------------- steps of a goroutine
Fails(fail) ==
    /\ fail \in 0..3
    /\ fail # 0 => ioBudget > 0
    /\ ioBudget' = IF fail # 0 THEN ioBudget - 1 ELSE ioBudget

Goto(t, l) == pc' = [pc EXCEPT ![t] = l]

\* getWriter: the entry of the key, created (MkdirAll, OpenFile) when missing
getWriter(t, tabID, site, okpc, errpc) ==
    LET key == fileKey(tabID, site) IN
    \/ /\ fm.files[key] # NoWriter
       /\ ltw' = [ltw EXCEPT ![t] = fm.files[key]]
       /\ Goto(t, okpc)
       /\ UNCHANGED <<fm, ioBudget>>
    \/ /\ fm.files[key] = NoWriter
       /\ Len(fm.tws) < MaxWriters
       /\ fm' = [fm EXCEPT !.tws = Append(@, NewTabWriter(tabID, site)),
                           !.files[key] = Len(fm.tws) + 1]
       /\ ltw' = [ltw EXCEPT ![t] = Len(fm.tws) + 1]
       /\ Goto(t, okpc)
       /\ UNCHANGED ioBudget
    \/ /\ fm.files[key] = NoWriter
       /\ ioBudget > 0
       /\ ioBudget' = ioBudget - 1
       /\ Goto(t, errpc)
       /\ UNCHANGED <<fm, ltw>>

\* the critical section of WriteEvent on the writer getWriter returned
WriteEventCS(t, nextpc) ==
    \E fail \in 0..3 :
        /\ FreeTimers(fm) # {}
        /\ Fails(fail)
        /\ LET r == WriteEventLocked(fm, ltw[t], lev[t], fail) IN
           /\ fail # 0 => r.err
           /\ fm' = r.st
           /\ acked' = IF r.err THEN acked ELSE acked \cup {<<lev[t], ltw[t]>>}
        /\ Goto(t, nextpc)

\* a CloseTab that leaves the entry in the map
CloseTabRemoveKeeps(t, tabID, site, foundpc, missingpc) ==
    LET key == fileKey(tabID, site) IN
    IF fm.files[key] = NoWriter
    THEN Goto(t, missingpc) /\ UNCHANGED <<fm, ltw>>
    ELSE /\ ltw' = [ltw EXCEPT ![t] = fm.files[key]]
         /\ fm' = fm
         /\ Goto(t, foundpc)

\* CloseTab up to fm.mu.Unlock(): the entry is looked up and deleted
CloseTabRemove(t, tabID, site, foundpc, missingpc) ==
    LET key == fileKey(tabID, site) IN
    IF fm.files[key] = NoWriter
    THEN Goto(t, missingpc) /\ UNCHANGED <<fm, ltw>>
    ELSE /\ ltw' = [ltw EXCEPT ![t] = fm.files[key]]
         /\ fm' = [fm EXCEPT !.files[key] = NoWriter]
         /\ Goto(t, foundpc)

CloseTabCS(t, nextpc) ==
    \E fail \in {0, 2, 3} :
        LET r == CloseTabLocked(fm, ltw[t], fail) IN
        /\ Fails(fail)
        /\ fail # 0 => r.err
        /\ fm' = r.st
        /\ Goto(t, nextpc)

\* ------------------------------------------------------ URLs and sites
UnknownSite == "unknown"

NoURL == [host |-> "", path |-> ""]
urlA1 == [host |-> "a.com", path |-> "/"]
urlA2 == [host |-> "a.com", path |-> "/x"]
urlB == [host |-> "b.com", path |-> "/"]
URLs == {urlA1, urlA2, urlB}

\* the hosts of the model carry no port and none of the replaced characters
SanitizeSiteName(hostname) == IF hostname = "" THEN UnknownSite ELSE hostname

ExtractSite(u) == IF u = NoURL \/ u.host = "" THEN UnknownSite ELSE SanitizeSiteName(u.host)

\* ------------------------------------------------- record constructors
Data(url, oldSite, newSite) == [url |-> url, old_site |-> oldSite, new_site |-> newSite]

NewSessionStartEvent ==
    NewLogEvent("_meta", "_session", EventMetaSessionStart, Data(NoURL, "", ""), SmallRec)

NewTabCreatedEvent(site, tabID, url) ==
    NewLogEvent(site, tabID, EventMetaTabCreated, Data(url, "", ""), SmallRec)

NewTabClosedEvent(site, tabID) ==
    NewLogEvent(site, tabID, EventMetaTabClosed, Data(NoURL, "", ""), SmallRec)

NewSiteChangedEvent(oldSite, tabID, newSite, newURL) ==
    NewLogEvent(oldSite, tabID, EventMetaSiteChanged, Data(newURL, oldSite, newSite), SmallRec)

NewSiteEnteredEvent(site, tabID, fromSite, url) ==
    NewLogEvent(site, tabID, EventMetaSiteEntered, Data(url, fromSite, ""), SmallRec)

NewPageNavigateEvent(site, tabID, url) ==
    NewLogEvent(site, tabID, EventPageNavigate, Data(url, "", ""), SmallRec)

NewPageLoadEvent(site, tabID, url) ==
    NewLogEvent(site, tabID, EventPageLoad, Data(url, "", ""), SmallRec)

\* ------------------------------------------------ the monitor and manager
TargetX == "X"          \* the one page target of the model
TabID == "tab-1"        \* the tab id the registry gives it

NoMonitor ==
    [tabID |-> "", currentSite |-> "", currentURL |-> NoURL, cancelled |-> FALSE,
     requestTracker |-> {}]

NewTabMonitor(tabID, site, url) ==
    [tabID |-> tabID, currentSite |-> site, currentURL |-> url, cancelled |-> FALSE,
     requestTracker |-> {}]

\* the network requests of the page, and how far the browser got with each
RequestIDs == 1..MaxRequests

NetStages == <<"Network.requestWillBeSent", "Network.responseReceived", "Network.loadingFinished">>

InitTabVars ==
    /\ m = [tabMonitors |-> {}]
    /\ tm = NoMonitor
    /\ tmMu = ""
    /\ listening = FALSE
    /\ br = [state |-> "none", url |-> NoURL, nnav |-> 0, ntab |-> 0,
             net |-> [r \in RequestIDs |-> 0], nnet |-> 0]
    /\ qMgr = <<>>
    /\ qTab = <<>>

storeVars == <<fm, ioBudget, ltw, acked>>

\* a HandleSiteChange that returns when the write of meta.site_changed fails
AfterGetWriterPropagated ==
    [start_getw |-> <<"start_cs", "start_listen">>,
     ev_getw |-> <<"ev_cs", "idle">>,
     resp_getw |-> <<"resp_cs", "resp_track">>,
     body_getw |-> <<"body_cs", "idle">>,
     stop_getw |-> <<"stop_cs", "stop_close">>,
     hsc_getw1 |-> <<"hsc_cs1", "hsc_unlock">>,
     hsc_getw2 |-> <<"hsc_cs2", "hsc_unlock">>]

\* where a goroutine continues after getWriter inside WriteEvent: <<ok, error>>
AfterGetWriter ==
    [start_getw |-> <<"start_cs", "start_listen">>,
     ev_getw |-> <<"ev_cs", "idle">>,
     resp_getw |-> <<"resp_cs", "resp_track">>,
     body_getw |-> <<"body_cs", "idle">>,
     stop_getw |-> <<"stop_cs", "stop_close">>,
     hsc_getw1 |-> <<"hsc_cs1", "hsc_close">>,
     hsc_getw2 |-> <<"hsc_cs2", "hsc_unlock">>]

\* where it continues after WriteEvent returned
AfterWriteEvent ==
    [start_cs |-> "start_listen", ev_cs |-> "idle", resp_cs |-> "resp_track", body_cs |-> "idle",
     stop_cs |-> "stop_close", hsc_cs1 |-> "hsc_close", hsc_cs2 |-> "hsc_unlock"]

\* where it continues after the map removal of CloseTab: <<found, missing>>
AfterCloseTabRemove ==
    [stop_close |-> <<"stop_closecs", "stop_cancel">>,
     hsc_close |-> <<"hsc_closecs", "hsc_set">>]

\* where it continues after CloseTab returned
AfterCloseTab == [stop_closecs |-> "stop_cancel", hsc_closecs |-> "hsc_set"]

\* fm.WriteEvent(tm.tabID, ev), first half: getWriter(tabID, event.Site)
WriteEventEnter(t) ==
    /\ pc[t] \in DOMAIN AfterGetWriter
    /\ getWriter(t, tm.tabID, lev[t].site, AfterGetWriter[pc[t]][1], AfterGetWriter[pc[t]][2])
    /\ UNCHANGED <<lev, lset, acked, nops, tabVars>>
    /\ UNCHANGED extVars

\* fm.WriteEvent, second half: the section under tw.mu
WriteEventBody(t) ==
    /\ pc[t] \in DOMAIN AfterWriteEvent
    /\ WriteEventCS(t, AfterWriteEvent[pc[t]])
    /\ UNCHANGED <<ltw, lev, lset, nops, tabVars>>
    /\ UNCHANGED extVars

\* fm.CloseTab(tabID, site), first half
CloseTabEnter(t) ==
    /\ pc[t] \in DOMAIN AfterCloseTabRemove
    /\ CloseTabRemove(t, tm.tabID, lev[t].site,
                      AfterCloseTabRemove[pc[t]][1], AfterCloseTabRemove[pc[t]][2])
    /\ UNCHANGED <<ioBudget, lev, lset, acked, nops, tabVars>>
    /\ UNCHANGED extVars

\* fm.CloseTab, second half: the section under tw.mu
CloseTabBody(t) ==
    /\ pc[t] \in DOMAIN AfterCloseTab
    /\ CloseTabCS(t, AfterCloseTab[pc[t]])
    /\ UNCHANGED <<ltw, lev, lset, acked, nops, tabVars>>
    /\ UNCHANGED extVars

\* ---- Manager: the browser-level listener of connect, one event at a time
handleNewTarget ==
    /\ pc["listener"] = "idle"
    /\ qMgr # <<>> /\ Head(qMgr)[1] = "created"
    /\ qMgr' = Tail(qMgr)
    /\ IF TargetX \in m.tabMonitors
       THEN UNCHANGED <<m, tm, pc>>
       ELSE /\ tm' = NewTabMonitor(TabID, ExtractSite(Head(qMgr)[2]), Head(qMgr)[2])
            /\ m' = [m EXCEPT !.tabMonitors = @ \cup {TargetX}]
            /\ Goto("start", "start_run")
    /\ UNCHANGED <<storeVars, lev, lset, nops, tmMu, listening, br, qTab>>
    /\ UNCHANGED extVars

\* handleTargetDestroyed up to the call of mon.Stop()
handleTargetDestroyed ==
    /\ pc["listener"] = "idle"
    /\ qMgr # <<>> /\ Head(qMgr)[1] = "destroyed"
    /\ qMgr' = Tail(qMgr)
    /\ IF TargetX \notin m.tabMonitors
       THEN UNCHANGED <<m, pc>>
       ELSE /\ m' = [m EXCEPT !.tabMonitors = @ \ {TargetX}]
            /\ Goto("listener", "stop_snap")
    /\ UNCHANGED <<storeVars, lev, lset, nops, tm, tmMu, listening, br, qTab>>
    /\ UNCHANGED extVars

\* Stop: the snapshot under tm.mu.RLock and the tab_closed event
StopSnapshotBy(t) ==
    /\ pc[t] = "stop_snap"
    /\ tmMu = ""
    /\ lev' = [lev EXCEPT ![t] = NewTabClosedEvent(tm.currentSite, tm.tabID)]
    /\ Goto(t, "stop_getw")
    /\ UNCHANGED <<storeVars, lset, nops, tabVars>>
    /\ UNCHANGED extVars

StopSnapshot == StopSnapshotBy("listener")

\* Stop: tm.cancel()
StopCancelBy(t) ==
    /\ pc[t] = "stop_cancel"
    /\ tm' = [tm EXCEPT !.cancelled = TRUE]
    /\ Goto(t, IF t = "main" THEN "mstop_close" ELSE "idle")
    /\ UNCHANGED <<storeVars, lev, lset, nops, m, tmMu, listening, br, qMgr, qTab>>
    /\ UNCHANGED extVars

StopCancel == StopCancelBy("listener")

\* a HandleSiteChange without the comparison of the sites
handleTargetInfoChangedAlways ==
    /\ pc["listener"] = "idle"
    /\ qMgr # <<>> /\ Head(qMgr)[1] = "infoChanged"
    /\ qMgr' = Tail(qMgr)
    /\ LET newURL == Head(qMgr)[2]
           newSite == ExtractSite(newURL)
       IN
       IF TargetX \notin m.tabMonitors
       THEN UNCHANGED <<tm, tmMu, lev, pc>>
       ELSE /\ tmMu = ""
            /\ IF FALSE
               THEN /\ tm' = [tm EXCEPT !.currentURL = newURL]
                    /\ UNCHANGED <<tmMu, lev, pc>>
               ELSE /\ tmMu' = "listener"
                    /\ lev' = [lev EXCEPT !["listener"] =
                                  NewSiteChangedEvent(tm.currentSite, tm.tabID, newSite, newURL)]
                    /\ Goto("listener", "hsc_getw1")
                    /\ UNCHANGED tm
    /\ UNCHANGED <<storeVars, lset, nops, m, listening, br, qTab>>
    /\ UNCHANGED extVars

\* handleTargetInfoChanged and HandleSiteChange up to the first WriteEvent
handleTargetInfoChanged ==
    /\ pc["listener"] = "idle"
    /\ qMgr # <<>> /\ Head(qMgr)[1] = "infoChanged"
    /\ qMgr' = Tail(qMgr)
    /\ LET newURL == Head(qMgr)[2]
           newSite == ExtractSite(newURL)
       IN
       IF TargetX \notin m.tabMonitors
       THEN UNCHANGED <<tm, tmMu, lev, pc>>
       ELSE /\ tmMu = ""
            /\ IF newSite = tm.currentSite
               THEN /\ tm' = [tm EXCEPT !.currentURL = newURL]
                    /\ UNCHANGED <<tmMu, lev, pc>>
               ELSE /\ tmMu' = "listener"
                    /\ lev' = [lev EXCEPT !["listener"] =
                                  NewSiteChangedEvent(tm.currentSite, tm.tabID, newSite, newURL)]
                    /\ Goto("listener", "hsc_getw1")
                    /\ UNCHANGED tm
    /\ UNCHANGED <<storeVars, lset, nops, m, listening, br, qTab>>
    /\ UNCHANGED extVars

\* HandleSiteChange: currentSite/currentURL are updated, site_entered is built
HandleSiteChangeSet ==
    /\ pc["listener"] = "hsc_set"
    /\ LET sc == lev["listener"] IN
       /\ tm' = [tm EXCEPT !.currentSite = sc.data.new_site, !.currentURL = sc.data.url]
       /\ lev' = [lev EXCEPT !["listener"] =
                     NewSiteEnteredEvent(sc.data.new_site, tm.tabID, sc.data.old_site, sc.data.url)]
    /\ Goto("listener", "hsc_getw2")
    /\ UNCHANGED <<storeVars, lset, nops, m, tmMu, listening, br, qMgr, qTab>>
    /\ UNCHANGED extVars

\* HandleSiteChange: the deferred tm.mu.Unlock()
HandleSiteChangeUnlock ==
    /\ pc["listener"] = "hsc_unlock"
    /\ tmMu' = ""
    /\ Goto("listener", "idle")
    /\ UNCHANGED <<storeVars, lev, lset, nops, m, tm, listening, br, qMgr, qTab>>
    /\ UNCHANGED extVars

\* ---- TabMonitor.Start, in the goroutine handleNewTarget spawned
\* chromedp.Run(page.Enable, runtime.Enable, network.Enable): fails when the
\* target is gone or the browser context is done
StartEnable ==
    /\ pc["start"] = "start_run"
    /\ br.state # "none"
    /\ Goto("start", IF br.state = "open" /\ ~ctxDone THEN "start_event" ELSE "done")
    /\ UNCHANGED <<storeVars, lev, lset, nops, tabVars>>
    /\ UNCHANGED extVars

\* the tab_created event, from tm.currentSite and tm.currentURL read without tm.mu
StartCreatedEvent ==
    /\ pc["start"] = "start_event"
    /\ lev' = [lev EXCEPT !["start"] = NewTabCreatedEvent(tm.currentSite, tm.tabID, tm.currentURL)]
    /\ Goto("start", "start_getw")
    /\ UNCHANGED <<storeVars, lset, nops, tabVars>>
    /\ UNCHANGED extVars

\* chromedp.ListenTarget(targetCtx, tm.handleEvent)
StartListen ==
    /\ pc["start"] = "start_listen"
    /\ listening' = TRUE
    /\ Goto("start", "start_wait")
    /\ UNCHANGED <<storeVars, lev, lset, nops, m, tm, tmMu, br, qMgr, qTab>>
    /\ UNCHANGED extVars

\* <-tm.ctx.Done(); return, and the deferred cancel of targetCtx
StartReturn ==
    /\ pc["start"] = "start_wait"
    /\ tm.cancelled
    /\ listening' = FALSE
    /\ Goto("start", "done")
    /\ UNCHANGED <<storeVars, lev, lset, nops, m, tm, tmMu, br, qMgr, qTab>>
    /\ UNCHANGED extVars

\* ---- handleEvent, in the target's event goroutine
Dispatchable(kind) ==
    /\ pc["dispatch"] = "idle"
    /\ qTab # <<>> /\ Head(qTab)[1] = kind
    /\ qTab' = Tail(qTab)

\* the listener's context is done: the event is not delivered
DropEvent ==
    /\ pc["dispatch"] = "idle"
    /\ qTab # <<>>
    /\ ~listening
    /\ qTab' = Tail(qTab)
    /\ UNCHANGED <<storeVars, pc, lev, lset, nops, m, tm, tmMu, listening, br, qMgr>>
    /\ UNCHANGED extVars

\* page.EventFrameNavigated: the snapshot under RLock, the page.navigate event
handleFrameNavigated ==
    /\ Dispatchable("frameNavigated")
    /\ listening /\ tmMu = ""
    /\ lev' = [lev EXCEPT !["dispatch"] =
                  NewPageNavigateEvent(tm.currentSite, tm.tabID, Head(qTab)[2])]
    /\ Goto("dispatch", "nav_url")
    /\ UNCHANGED <<storeVars, lset, nops, m, tm, tmMu, listening, br, qMgr>>
    /\ UNCHANGED extVars

\* tm.mu.Lock(); tm.currentURL = ev.Frame.URL; tm.mu.Unlock()
FrameNavigatedSetURL ==
    /\ pc["dispatch"] = "nav_url"
    /\ tmMu = ""
    /\ tm' = [tm EXCEPT !.currentURL = lev["dispatch"].data.url]
    /\ Goto("dispatch", "ev_getw")
    /\ UNCHANGED <<storeVars, lev, lset, nops, m, tmMu, listening, br, qMgr, qTab>>
    /\ UNCHANGED extVars

\* page.EventLoadEventFired: the snapshot under RLock
handleLoadEventFired ==
    /\ Dispatchable("loadEventFired")
    /\ listening /\ tmMu = ""
    /\ lev' = [lev EXCEPT !["dispatch"] = NewPageLoadEvent(tm.currentSite, tm.tabID, NoURL)]
    /\ Goto("dispatch", "load_url")
    /\ UNCHANGED <<storeVars, lset, nops, m, tm, tmMu, listening, br, qMgr>>
    /\ UNCHANGED extVars

\* url := tm.currentURL under a second RLock
LoadEventReadURL ==
    /\ pc["dispatch"] = "load_url"
    /\ tmMu = ""
    /\ lev' = [lev EXCEPT !["dispatch"] =
                  NewPageLoadEvent(lev["dispatch"].site, lev["dispatch"].tab_id, tm.currentURL)]
    /\ Goto("dispatch", "ev_getw")
    /\ UNCHANGED <<storeVars, lset, nops, tabVars>>
    /\ UNCHANGED extVars

\* network.EventLoadingFinished of a tracked request: go tm.captureBody(...)
handleLoadingFinished ==
    /\ Dispatchable("loadingFinished")
    /\ listening /\ tmMu = ""
    /\ pc["body"] = "idle"
    /\ lev' = [lev EXCEPT !["body"] =
                  NewLogEvent(tm.currentSite, tm.tabID, EventNetworkResponseBody,
                              Data(NoURL, "", ""), LargeRec)]
    /\ Goto("body", "body_fetch")
    /\ UNCHANGED <<storeVars, lset, nops, m, tm, tmMu, listening, br, qMgr>>
    /\ UNCHANGED extVars

\* captureBody: network.GetResponseBody over tm.targetCtx succeeds while the
\* target and its context live, and may fail (the response left the cache)
captureBodyFetch ==
    /\ pc["body"] = "body_fetch"
    /\ \/ listening /\ br.state = "open" /\ Goto("body", "body_getw")
       \/ Goto("body", "idle")
    /\ UNCHANGED <<storeVars, lev, lset, nops, tabVars>>
    /\ UNCHANGED extVars

\* the data of a network record: the request id, and the time.Now() of
\* NewLogEvent as the ordinal of the protocol event (the dispatch takes one
\* event at a time, in the order the browser sent them)
NetData(requestID, n) == [request_id |-> requestID, timestamp |-> n]

\* network.EventRequestWillBeSent: network.request
handleRequestWillBeSent ==
    /\ Dispatchable("Network.requestWillBeSent")
    /\ listening /\ tmMu = ""
    /\ lev' = [lev EXCEPT !["dispatch"] =
                  NewLogEvent(tm.currentSite, tm.tabID, EventNetworkRequest,
                              NetData(Head(qTab)[2], Head(qTab)[3]), SmallRec)]
    /\ Goto("dispatch", "ev_getw")
    /\ UNCHANGED <<storeVars, lset, nops, m, tm, tmMu, listening, br, qMgr>>
    /\ UNCHANGED extVars

\* network.EventResponseReceived: network.response, then the tracker entry
handleResponseReceived ==
    /\ Dispatchable("Network.responseReceived")
    /\ listening /\ tmMu = ""
    /\ lev' = [lev EXCEPT !["dispatch"] =
                  NewLogEvent(tm.currentSite, tm.tabID, EventNetworkResponse,
                              NetData(Head(qTab)[2], Head(qTab)[3]), SmallRec)]
    /\ Goto("dispatch", "resp_getw")
    /\ UNCHANGED <<storeVars, lset, nops, m, tm, tmMu, listening, br, qMgr>>
    /\ UNCHANGED extVars

\* cfg.CaptureBodies && tm.shouldCaptureBody(mime type, length): the response
\* is remembered for the body capture, or it is not
trackResponse ==
    /\ pc["dispatch"] = "resp_track"
    /\ \E capture \in BOOLEAN :
          tm' = IF capture
                THEN [tm EXCEPT !.requestTracker = @ \cup {lev["dispatch"].data.request_id}]
                ELSE tm
    /\ Goto("dispatch", "idle")
    /\ UNCHANGED <<storeVars, lev, lset, nops, m, tmMu, listening, br, qMgr, qTab>>
    /\ UNCHANGED extVars

\* a loading-finished that starts the body capture and keeps the entry
handleNetLoadingFinishedKeeps ==
    /\ Dispatchable("Network.loadingFinished")
    /\ listening /\ tmMu = ""
    /\ IF Head(qTab)[2] \in tm.requestTracker
       THEN /\ pc["body"] = "idle"
            /\ tm' = tm
            /\ lev' = [lev EXCEPT !["body"] =
                          NewLogEvent(tm.currentSite, tm.tabID, EventNetworkResponseBody,
                                      NetData(Head(qTab)[2], Head(qTab)[3]), LargeRec)]
            /\ Goto("body", "body_fetch")
       ELSE UNCHANGED <<tm, lev, pc>>
    /\ UNCHANGED <<storeVars, lset, nops, m, tmMu, listening, br, qMgr>>
    /\ UNCHANGED extVars

\* network.EventLoadingFinished: a tracked request leaves the tracker and
\* go tm.captureBody(requestID, info, site, tabID) is started
handleNetLoadingFinished ==
    /\ Dispatchable("Network.loadingFinished")
    /\ listening /\ tmMu = ""
    /\ IF Head(qTab)[2] \in tm.requestTracker
       THEN /\ pc["body"] = "idle"
            /\ tm' = [tm EXCEPT !.requestTracker = @ \ {Head(qTab)[2]}]
            /\ lev' = [lev EXCEPT !["body"] =
                          NewLogEvent(tm.currentSite, tm.tabID, EventNetworkResponseBody,
                                      NetData(Head(qTab)[2], Head(qTab)[3]), LargeRec)]
            /\ Goto("body", "body_fetch")
       ELSE UNCHANGED <<tm, lev, pc>>
    /\ UNCHANGED <<storeVars, lset, nops, m, tmMu, listening, br, qMgr>>
    /\ UNCHANGED extVars

\* network.EventLoadingFailed: network.failure
handleLoadingFailed ==
    /\ Dispatchable("Network.loadingFailed")
    /\ listening /\ tmMu = ""
    /\ lev' = [lev EXCEPT !["dispatch"] =
                  NewLogEvent(tm.currentSite, tm.tabID, EventNetworkFailure,
                              NetData(Head(qTab)[2], Head(qTab)[3]), SmallRec)]
    /\ Goto("dispatch", "ev_getw")
    /\ UNCHANGED <<storeVars, lset, nops, m, tm, tmMu, listening, br, qMgr>>
    /\ UNCHANGED extVars

\* ---- the browser
BrowserOpenTab ==
    /\ br.state = "none"
    /\ br' = [br EXCEPT !.state = "open", !.url = urlA1]
    /\ qMgr' = Append(qMgr, <<"created", urlA1>>)
    /\ UNCHANGED <<storeVars, pc, lev, lset, nops, m, tm, tmMu, listening, qTab>>
    /\ UNCHANGED extVars

\* a navigation: Target.targetInfoChanged to the browser session and
\* Page.frameNavigated to the target's session
BrowserNavigate ==
    /\ br.state = "open"
    /\ br.nnav < MaxNav
    /\ \E u \in URLs \ {br.url} :
          /\ br' = [br EXCEPT !.url = u, !.nnav = @ + 1]
          /\ qMgr' = Append(qMgr, <<"infoChanged", u>>)
          /\ qTab' = IF listening THEN Append(qTab, <<"frameNavigated", u>>) ELSE qTab
    /\ UNCHANGED <<storeVars, pc, lev, lset, nops, m, tm, tmMu, listening>>
    /\ UNCHANGED extVars

BrowserTabEvent ==
    /\ br.state = "open"
    /\ listening
    /\ br.ntab < MaxTabEvents
    /\ \E kind \in {"loadEventFired", "loadingFinished"} :
          qTab' = Append(qTab, <<kind, NoURL>>)
    /\ br' = [br EXCEPT !.ntab = @ + 1]
    /\ UNCHANGED <<storeVars, pc, lev, lset, nops, m, tm, tmMu, listening, qMgr>>
    /\ UNCHANGED extVars

\* the page's requests: request-will-be-sent, response-received, then
\* loading-finished, or loading-failed in place of either of the last two
BrowserNetworkEvent ==
    /\ br.state = "open"
    /\ listening
    /\ \E r \in RequestIDs :
          /\ br.net[r] < Len(NetStages)
          /\ \E kind \in {NetStages[br.net[r] + 1]} \cup
                          (IF br.net[r] > 0 THEN {"Network.loadingFailed"} ELSE {}) :
                /\ qTab' = Append(qTab, <<kind, r, br.nnet + 1>>)
                /\ br' = [br EXCEPT !.net[r] = IF kind = "Network.loadingFailed"
                                               THEN Len(NetStages) ELSE @ + 1,
                                    !.nnet = @ + 1]
    /\ UNCHANGED <<storeVars, pc, lev, lset, nops, m, tm, tmMu, listening, qMgr>>
    /\ UNCHANGED extVars

BrowserCloseTab ==
    /\ br.state = "open"
    /\ br' = [br EXCEPT !.state = "closed"]
    /\ qMgr' = Append(qMgr, <<"destroyed", NoURL>>)
    /\ UNCHANGED <<storeVars, pc, lev, lset, nops, m, tm, tmMu, listening, qTab>>
    /\ UNCHANGED extVars

\* ------------------------------------------------------ the store's clients
\* the records the clients write: <<event type, serialized size>>
StoreRecords ==
    {<<EventMetaTabCreated, SmallRec>>, <<EventConsoleLog, SmallRec>>,
     <<EventConsoleLog, LargeRec>>}

ClientWrite(c) ==
    /\ pc[c] = "idle"
    /\ nops < MaxOps
    /\ \E k \in StoreKeys, kind \in StoreRecords :
          /\ lev' = [lev EXCEPT ![c] = NewLogEvent(k[2], k[1], kind[1], nops + 1, kind[2])]
          /\ getWriter(c, k[1], k[2], "write", "idle")
    /\ nops' = nops + 1
    /\ UNCHANGED <<lset, acked, tabVars>>
    /\ UNCHANGED extVars

ClientWriteCS(c) ==
    /\ pc[c] = "write"
    /\ WriteEventCS(c, "idle")
    /\ UNCHANGED <<ltw, lev, lset, nops, tabVars>>
    /\ UNCHANGED extVars

ClientCloseTab(c) ==
    /\ pc[c] = "idle"
    /\ nops < MaxOps
    /\ \E k \in StoreKeys : CloseTabRemove(c, k[1], k[2], "close", "idle")
    /\ nops' = nops + 1
    /\ UNCHANGED <<ioBudget, lev, lset, acked, tabVars>>
    /\ UNCHANGED extVars

ClientCloseTabCS(c) ==
    /\ pc[c] = "close"
    /\ CloseTabCS(c, "idle")
    /\ UNCHANGED <<ltw, lev, lset, acked, nops, tabVars>>
    /\ UNCHANGED extVars

\* CloseAllForTab up to fm.mu.Unlock()
ClientCloseAllForTab(c) ==
    /\ pc[c] = "idle"
    /\ nops < MaxOps
    /\ \E tabID \in {k[1] : k \in StoreKeys} :
          LET ks == {k \in Keys : fm.files[k] # NoWriter /\ fm.tws[fm.files[k]].tabID = tabID} IN
          /\ lset' = [lset EXCEPT ![c] = {fm.files[k] : k \in ks}]
          /\ fm' = [fm EXCEPT !.files = [k \in Keys |-> IF k \in ks THEN NoWriter ELSE @[k]]]
    /\ Goto(c, "closeloop")
    /\ nops' = nops + 1
    /\ UNCHANGED <<ioBudget, ltw, lev, acked, tabVars>>
    /\ UNCHANGED extVars

\* Close up to fm.mu.Unlock()
ClientClose(c) ==
    /\ pc[c] = "idle"
    /\ nops < MaxOps
    /\ lset' = [lset EXCEPT ![c] = {fm.files[k] : k \in {k \in Keys : fm.files[k] # NoWriter}}]
    /\ fm' = [fm EXCEPT !.files = [k \in Keys |-> NoWriter]]
    /\ Goto(c, "closeloop")
    /\ nops' = nops + 1
    /\ UNCHANGED <<ioBudget, ltw, lev, acked, tabVars>>
    /\ UNCHANGED extVars

\* the loop over toClose / writers, one writer per step (map order is arbitrary)
ClientCloseLoop(c) ==
    /\ pc[c] = "closeloop"
    /\ IF lset[c] = {}
       THEN Goto(c, "idle") /\ UNCHANGED <<fm, ioBudget, lset>>
       ELSE \E w \in lset[c], fail \in {0, 2, 3} :
               /\ Fails(fail)
               /\ fm' = CloseLoopLocked(fm, w, fail).st
               /\ lset' = [lset EXCEPT ![c] = @ \ {w}]
               /\ UNCHANGED pc
    /\ UNCHANGED <<ltw, lev, acked, nops, tabVars>>
    /\ UNCHANGED extVars

\* ------------------------------------------------------------------ timers
\* the runtime fires an armed timer: the callback goroutine starts
TimerFire(i) ==
    /\ fm.timers[i].st = "armed"
    /\ fm' = [fm EXCEPT !.timers[i].st = "fired"]
    /\ UNCHANGED <<ioBudget, pc, ltw, lev, lset, acked, nops, tabVars>>
    /\ UNCHANGED extVars

\* the callback obtains tw.mu and runs
TimerRun(i) ==
    /\ fm.timers[i].st = "fired"
    /\ \E ok \in BOOLEAN :
          /\ Fails(IF ok THEN 0 ELSE 2)
          /\ fm' = flushCallback(fm, i, ok)
    /\ UNCHANGED <<pc, ltw, lev, lset, acked, nops, tabVars>>
    /\ UNCHANGED extVars

\* ------------------------------------- the store's calls, mutex by mutex
\* The dispatch goroutines of two tabs call WriteEvent, each for the file of
\* its tab, and the manager's listener calls CloseTab; every Lock, RLock and
\* Unlock is a step. A goroutine's position says which mutexes it holds.
LockThreads == {"c1", "c2", "listener"}
LockKeyOf == [c1 |-> fileKey("tab-1", "a.com"), c2 |-> fileKey("tab-2", "a.com")]
LockKeys == {LockKeyOf[c] : c \in Clients}
LockRecords == {<<EventMetaTabCreated, SmallRec>>, <<EventConsoleLog, SmallRec>>}

\* a CloseTab that keeps fm.mu until it returns
MapLockHeldThroughClose == {"gw_create", "ct_remove", "ct_twlock", "ct_close"}

\* where a goroutine holds fm.mu exclusively: getWriter's slow path, and
\* CloseTab up to its fm.mu.Unlock()
MapLockHeldAt == {"gw_create", "ct_remove"}

MapWriters == {t \in LockThreads : pc[t] \in MapLockHeldAt}

\* fm.mu.Lock() was called and waits for the readers to leave
MapPending == {t \in LockThreads : pc[t] \in {"gw_lockwait", "ct_lockwait"}}

MapReaders == {t \in LockThreads : pc[t] = "gw_read"}

\* who holds tw.mu of writer w
TwHolders(w) == {t \in LockThreads : pc[t] \in {"we_write", "ct_close"} /\ ltw[t] = w}

\* fm.WriteEvent(tabID, event) is called
WriteEventCall(t) ==
    /\ t \in Clients
    /\ pc[t] = "idle"
    /\ nops < MaxOps
    /\ \E kind \in LockRecords :
          lev' = [lev EXCEPT ![t] = NewLogEvent(LockKeyOf[t][2], LockKeyOf[t][1], kind[1], 0, kind[2])]
    /\ nops' = nops + 1
    /\ Goto(t, "gw_rlock")
    /\ UNCHANGED <<storeVars, lset, tabVars>>
    /\ UNCHANGED extVars

\* getWriter: fm.mu.RLock(); a goroutine waiting in Lock() keeps readers out
GetWriterRLock(t) ==
    /\ pc[t] = "gw_rlock"
    /\ MapWriters = {} /\ MapPending = {}
    /\ Goto(t, "gw_read")
    /\ UNCHANGED <<storeVars, lev, lset, nops, tabVars>>
    /\ UNCHANGED extVars

\* the fast path: the lookup, fm.mu.RUnlock()
GetWriterRead(t) ==
    /\ pc[t] = "gw_read"
    /\ LET w == fm.files[fileKey(lev[t].tab_id, lev[t].site)] IN
       IF w # NoWriter
       THEN ltw' = [ltw EXCEPT ![t] = w] /\ Goto(t, "we_lock")
       ELSE UNCHANGED ltw /\ Goto(t, "gw_lock")
    /\ UNCHANGED <<fm, ioBudget, acked, lev, lset, nops, tabVars>>
    /\ UNCHANGED extVars

\* fm.mu.Lock() is called
MapLockCall(t) ==
    /\ pc[t] \in {"gw_lock", "ct_lock"}
    /\ Goto(t, IF pc[t] = "gw_lock" THEN "gw_lockwait" ELSE "ct_lockwait")
    /\ UNCHANGED <<storeVars, lev, lset, nops, tabVars>>
    /\ UNCHANGED extVars

\* fm.mu.Lock() returns
MapLockAcquire(t) ==
    /\ pc[t] \in {"gw_lockwait", "ct_lockwait"}
    /\ MapWriters = {} /\ MapReaders = {}
    /\ Goto(t, IF pc[t] = "gw_lockwait" THEN "gw_create" ELSE "ct_remove")
    /\ UNCHANGED <<storeVars, lev, lset, nops, tabVars>>
    /\ UNCHANGED extVars

\* the slow path under fm.mu: the second lookup, the new file, the deferred Unlock
GetWriterCreate(t) ==
    /\ pc[t] = "gw_create"
    /\ getWriter(t, lev[t].tab_id, lev[t].site, "we_lock", "idle")
    /\ UNCHANGED <<acked, lev, lset, nops, tabVars>>
    /\ UNCHANGED extVars

\* tw.mu.Lock() of WriteEvent and of CloseTab
TwLock(t) ==
    /\ pc[t] \in {"we_lock", "ct_twlock"}
    /\ TwHolders(ltw[t]) = {}
    /\ Goto(t, IF pc[t] = "we_lock" THEN "we_write" ELSE "ct_close")
    /\ UNCHANGED <<storeVars, lev, lset, nops, tabVars>>
    /\ UNCHANGED extVars

\* WriteEvent under tw.mu: Write, handleFlush, the deferred Unlock. The
\* kernel may keep the goroutine in its write for any time.
WriteEventReturn(t) ==
    /\ pc[t] = "we_write"
    /\ \/ FreeTimers(fm) # {}
       \/ fm.tws[ltw[t]].flushTimer # NoTimer
       \/ isMeta(lev[t].event_type)
    /\ LET r == WriteEventLocked(fm, ltw[t], lev[t], 0) IN
       /\ fm' = r.st
       /\ acked' = IF r.err THEN acked ELSE acked \cup {<<lev[t], ltw[t]>>}
    /\ Goto(t, "idle")
    /\ UNCHANGED <<ioBudget, ltw, lev, lset, nops, tabVars>>
    /\ UNCHANGED extVars

\* fm.CloseTab(tabID, site) is called
CloseTabCall(t) ==
    /\ t = "listener"
    /\ pc[t] = "idle"
    /\ nops < MaxOps
    /\ \E k \in LockKeys :
          lev' = [lev EXCEPT ![t] = NewLogEvent(k[2], k[1], <<"", "">>, 0, 0)]
    /\ nops' = nops + 1
    /\ Goto(t, "ct_lock")
    /\ UNCHANGED <<storeVars, lset, tabVars>>
    /\ UNCHANGED extVars

\* CloseTab under fm.mu: the lookup, the delete, fm.mu.Unlock()
CloseTabDelete(t) ==
    /\ pc[t] = "ct_remove"
    /\ CloseTabRemove(t, lev[t].tab_id, lev[t].site, "ct_twlock", "idle")
    /\ UNCHANGED <<ioBudget, acked, lev, lset, nops, tabVars>>
    /\ UNCHANGED extVars

\* CloseTab under tw.mu: the final flush, sync and close, the deferred Unlock
CloseTabReturn(t) ==
    /\ pc[t] = "ct_close"
    /\ CloseTabCS(t, "idle")
    /\ UNCHANGED <<ltw, lev, lset, acked, nops, tabVars>>
    /\ UNCHANGED extVars

\* the timer callback obtains tw.mu and runs
TimerRunLocked(i) ==
    /\ fm.timers[i].st = "fired"
    /\ TwHolders(fm.timers[i].tw) = {}
    /\ TimerRun(i)

\* ------------------------------------------- the manager's state, at rest
UserPages == {"X"}                \* page targets the user opens

AnchorOf == <<"A1", "A2", "A3">>  \* the tab chromedp creates for the k-th connection

AnchorTargets == {AnchorOf[k] : k \in 1..MaxConnects}

PageTargets == UserPages \cup AnchorTargets

NoTarget == ""

NoMon == 0                        \* no entry in m.tabMonitors

reconnectInterval == 5            \* seconds

maxReconnectWait == 30            \* seconds

\* a slot of mons that holds no monitor: none was created there, or the one
\* that was is stopped and its Start goroutine is over
FreeMonitor == [target |-> NoTarget, start |-> "none", stopped |-> FALSE]

NewManager ==
    [tabMonitors |-> [x \in PageTargets |-> NoMon], internalTargetID |-> NoTarget,
     browserCtx |-> "none", connected |-> FALSE, nconn |-> 0]

InitMgrVars ==
    /\ chrome = [up |-> FALSE, pages |-> {}, used |-> {}]
    /\ mg = NewManager
    /\ mons = [s \in 1..MaxMonitors |-> FreeMonitor]
    /\ mst = [pc |-> "loop", retryWait |-> reconnectInterval, initialTabs |-> {},
             attempts |-> 0, waits |-> <<>>]
    /\ bg = [listening |-> FALSE, listener |-> [pc |-> "idle", mon |-> NoMon], ignored |-> {},
             cleanup |-> [pc |-> "none", set |-> {}]]
    /\ mq = <<>>
    /\ mlog = {}
    /\ ctxDone = FALSE
    /\ nev = 0

\* ---------------------------------------------------------- the tab registry
\* Strings of the registry are sequences of Unicode code points.
Targets == {"X", "Y"}   \* CDP target ids

NoTab == <<>>           \* the empty string: what a missing map entry reads as

TabPrefix == <<116, 97, 98, 45>>    \* "tab-"

\* how many ids the process generated before the registry's clients start:
\* tabCounter is a package variable, shared by every registry and every call
CounterStarts == {0, 8, 55247}

\* string(rune(r)): the code point itself, U+FFFD for a surrogate half or a
\* value outside Unicode (r stays below 2^31 here, so rune() truncates nothing)
RuneToString(r) ==
    IF r < 0 \/ r > 1114111 \/ (55296 <= r /\ r <= 57343) THEN <<65533>> ELSE <<r>>

\* strings.TrimPrefix
TrimPrefix(str, prefix) ==
    IF Len(str) >= Len(prefix) /\ SubSeq(str, 1, Len(prefix)) = prefix
    THEN SubSeq(str, Len(prefix) + 1, Len(str))
    ELSE str

\* GenerateTabID with id the value tabCounter.Add(1) returned
GenerateTabID(id) == TabPrefix \o TrimPrefix(RuneToString(48 + id), <<48>>)

\* strconv.Itoa for k >= 0
RECURSIVE Decimal(_)
Decimal(k) == IF k < 10 THEN <<48 + k>> ELSE Decimal(k \div 10) \o <<48 + (k % 10)>>

NewTabRegistry == [targetToTab |-> [x \in Targets \cup PageTargets |-> NoTab]]

InitRegVars ==
    /\ reg = NewTabRegistry
    /\ tabCounter = 0
    /\ rpc = [c \in Clients |-> [at |-> "idle", targetID |-> "", ret |-> NoTab]]
    /\ rhist = [ret |-> {}, gen |-> {}]

\* GetOrCreateTabID up to the first RUnlock: the probe under the read lock
GetOrCreateTabIDProbe(c) ==
    /\ rpc[c].at = "idle"
    /\ \E x \in Targets :
          IF reg.targetToTab[x] # NoTab
          THEN /\ rpc' = [rpc EXCEPT ![c] = [at |-> "idle", targetID |-> x,
                                             ret |-> reg.targetToTab[x]]]
               /\ rhist' = [rhist EXCEPT !.ret = @ \cup {<<x, reg.targetToTab[x]>>}]
          ELSE /\ rpc' = [rpc EXCEPT ![c] = [at |-> "lock", targetID |-> x, ret |-> NoTab]]
               /\ UNCHANGED rhist
    /\ UNCHANGED <<reg, tabCounter, coreVars, mgrVars>>

\* GetOrCreateTabID under the write lock: the double-check, GenerateTabID
GetOrCreateTabIDLocked(c) ==
    /\ rpc[c].at = "lock"
    /\ LET x == rpc[c].targetID IN
       IF reg.targetToTab[x] # NoTab
       THEN /\ rpc' = [rpc EXCEPT ![c] = [at |-> "idle", targetID |-> x,
                                          ret |-> reg.targetToTab[x]]]
            /\ rhist' = [rhist EXCEPT !.ret = @ \cup {<<x, reg.targetToTab[x]>>}]
            /\ UNCHANGED <<reg, tabCounter>>
       ELSE LET id == tabCounter + 1
                tabID == GenerateTabID(id)
            IN
            /\ Cardinality(rhist.gen) < MaxGen
            /\ tabCounter' = id
            /\ reg' = [reg EXCEPT !.targetToTab[x] = tabID]
            /\ rpc' = [rpc EXCEPT ![c] = [at |-> "idle", targetID |-> x, ret |-> tabID]]
            /\ rhist' = [ret |-> rhist.ret \cup {<<x, tabID>>},
                         gen |-> rhist.gen \cup {<<id, tabID>>}]
    /\ UNCHANGED <<coreVars, mgrVars>>

GetTabID(c) ==
    /\ rpc[c].at = "idle"
    /\ \E x \in Targets :
          rpc' = [rpc EXCEPT ![c] = [at |-> "idle", targetID |-> x, ret |-> reg.targetToTab[x]]]
    /\ UNCHANGED <<reg, tabCounter, rhist, coreVars, mgrVars>>

RemoveTarget(c) ==
    /\ rpc[c].at = "idle"
    /\ \E x \in Targets :
          /\ reg' = [reg EXCEPT !.targetToTab[x] = NoTab]
          /\ rpc' = [rpc EXCEPT ![c] = [at |-> "idle", targetID |-> x, ret |-> NoTab]]
    /\ UNCHANGED <<tabCounter, rhist, coreVars, mgrVars>>

InitRegistry ==
    /\ fm = InitFM
    /\ ioBudget = 0
    /\ pc = [t \in Threads |-> "idle"]
    /\ ltw = [t \in Threads |-> NoWriter]
    /\ lev = [t \in Threads |-> NoEvent]
    /\ lset = [t \in Threads |-> {}]
    /\ acked = {}
    /\ nops = 0
    /\ InitTabVars
    /\ reg = NewTabRegistry
    /\ tabCounter \in CounterStarts
    /\ rpc = [c \in Clients |-> [at |-> "idle", targetID |-> "", ret |-> NoTab]]
    /\ rhist = [ret |-> {}, gen |-> {}]
    /\ InitMgrVars

NextRegistry ==
    \/ \E c \in Clients : GetOrCreateTabIDProbe(c)
    \/ \E c \in Clients : GetOrCreateTabIDLocked(c)
    \/ \E c \in Clients : GetTabID(c)
    \/ \E c \in Clients : RemoveTarget(c)

RegistrySpec == InitRegistry /\ [][NextRegistry]_vars

\* ids the registry returned for target x
Returned(x) == {r[2] : r \in {q \in rhist.ret : q[1] = x}}

\* C11: every lookup of a target through GetOrCreateTabID returns the tab id
\* of the target's first encounter: no target was ever given two tab ids.
C11_StableTabID ==
    \A x \in Targets : Cardinality(Returned(x)) <= 1

\* C12: no tab id is assigned to two different targets, over the whole
\* lifetime of the process.
C12_Injective ==
    \A x, y \in Targets : x # y => Returned(x) \cap Returned(y) = {}

\* C13: the k-th tab id generated is "tab-" followed by k in decimal.
C13_DecimalTabID ==
    \A g \in rhist.gen : g[2] = TabPrefix \o Decimal(g[1])

\* ------------------------------------------------- the manager, every target
\* the monitors the map holds
Monitored(mgr) == {x \in PageTargets : mgr.tabMonitors[x] # NoMon}

\* a map lookup that never finds the monitor
existsNever(mgr, x) == FALSE

\* _, exists := m.tabMonitors[targetID]
exists(mgr, x) == mgr.tabMonitors[x] # NoMon

\* m.browserCtx is done: no listener callback starts any more
CtxDone(mgr) == [mgr EXCEPT !.browserCtx = IF @ = "live" THEN "done" ELSE @]

FreeMonitors == {s \in 1..MaxMonitors : mons[s] = FreeMonitor}

\* TabMonitor.Stop of monitor s: meta.tab_closed is written, the file closed
MonStop(s) ==
    /\ mons' = [mons EXCEPT ![s] = IF @.start = "spawned"
                                   THEN [@ EXCEPT !.stopped = TRUE]
                                   ELSE FreeMonitor]
    /\ mlog' = mlog \cup {<<mons[s].target, "tab_closed">>}

\* handleNewTarget, all of it under m.mu
ManagerHandleNewTarget(x) ==
    IF exists(mg, x)
    THEN UNCHANGED <<mg, mons, reg, tabCounter>>
    ELSE /\ FreeMonitors # {}
         /\ IF reg.targetToTab[x] # NoTab
            THEN UNCHANGED <<reg, tabCounter>>
            ELSE /\ tabCounter' = tabCounter + 1
                 /\ reg' = [reg EXCEPT !.targetToTab[x] = GenerateTabID(tabCounter + 1)]
         /\ mons' = [mons EXCEPT ![Min(FreeMonitors)] =
                                     [target |-> x, start |-> "spawned", stopped |-> FALSE]]
         /\ mg' = [mg EXCEPT !.tabMonitors[x] = Min(FreeMonitors)]

\* a Start that gives up when connect fails
AfterConnectErrorReturns == "returned"

\* Start after connect returned an error: the error is logged, the wait follows
AfterConnectError == "backoff"

\* a back-off that is never capped
nextRetryWaitUncapped(w) == w * 2

\* retryWait = retryWait * 2, capped at maxReconnectWait
nextRetryWait(w) == IF w * 2 > maxReconnectWait THEN maxReconnectWait ELSE w * 2

\* Start, the select at the top of the reconnection loop
StartLoop ==
    /\ mst.pc = "loop"
    /\ IF ctxDone
       THEN mst' = [mst EXCEPT !.pc = "returned"]
       ELSE /\ mst.attempts < MaxAttempts
            /\ mst' = [mst EXCEPT !.pc = "discover", !.attempts = @ + 1]
    /\ UNCHANGED <<chrome, mg, mons, bg, mq, mlog, ctxDone, nev>>
    /\ UNCHANGED <<coreVars, regVars>>

\* connect: DiscoverTabs over HTTP
ConnectDiscover ==
    /\ mst.pc = "discover"
    /\ IF chrome.up
       THEN mst' = [mst EXCEPT !.pc = "run", !.initialTabs = chrome.pages]
       ELSE mst' = [mst EXCEPT !.pc = AfterConnectError]
    /\ UNCHANGED <<chrome, mg, mons, bg, mq, mlog, ctxDone, nev>>
    /\ UNCHANGED <<coreVars, regVars>>

\* connect: DiscoverBrowserInfo, the two contexts, Run(SetDiscoverTargets),
\* which has chromedp open its own tab, and m.internalTargetID
ConnectRun ==
    /\ mst.pc = "run"
    /\ IF chrome.up /\ ~ctxDone
       THEN /\ mg.nconn < MaxConnects
            /\ LET a == AnchorOf[mg.nconn + 1] IN
               /\ chrome' = [chrome EXCEPT !.pages = @ \cup {a}, !.used = @ \cup {a}]
               /\ mg' = [mg EXCEPT !.browserCtx = "live", !.internalTargetID = a,
                                   !.nconn = @ + 1]
            /\ mst' = [mst EXCEPT !.pc = "listen"]
       ELSE /\ mg' = [mg EXCEPT !.browserCtx = "done"]
            /\ mst' = [mst EXCEPT !.pc = AfterConnectError, !.initialTabs = {}]
            /\ UNCHANGED chrome
    /\ UNCHANGED <<mons, bg, mq, mlog, ctxDone, nev>>
    /\ UNCHANGED <<coreVars, regVars>>

\* connect: ListenTarget and the goroutine that cleans up on disconnect.
\* The targetCreated events Chrome replays when discovery is switched on
\* reach the new listener or are gone before it is registered.
ConnectListen ==
    /\ mst.pc = "listen"
    /\ bg.cleanup.pc = "none"
    /\ mst' = [mst EXCEPT !.pc = "enum"]
    /\ bg' = [bg EXCEPT !.listening = (mg.browserCtx = "live"), !.cleanup.pc = "waiting"]
    /\ \E replay \in BOOLEAN :
          mq' = IF replay /\ mg.browserCtx = "live" /\ chrome.pages \cap UserPages # {}
                THEN <<<<"created", CHOOSE x \in chrome.pages \cap UserPages : TRUE>>>>
                ELSE <<>>
    /\ UNCHANGED <<chrome, mg, mons, mlog, ctxDone, nev>>
    /\ UNCHANGED <<coreVars, regVars>>

\* connect: one turn of the loop over initialTabs
ConnectEnumerate ==
    /\ mst.pc = "enum"
    /\ mst.initialTabs # {}
    /\ \E x \in mst.initialTabs :
          /\ mst' = [mst EXCEPT !.initialTabs = @ \ {x}]
          /\ IF x # mg.internalTargetID
             THEN ManagerHandleNewTarget(x)
             ELSE UNCHANGED <<mg, mons, reg, tabCounter>>
    /\ UNCHANGED <<chrome, bg, mq, mlog, ctxDone, nev>>
    /\ UNCHANGED <<coreVars, rpc, rhist>>

\* connect returns nil: Start resets retryWait and sets m.connected
ConnectReturn ==
    /\ mst.pc = "enum"
    /\ mst.initialTabs = {}
    /\ mst' = [mst EXCEPT !.pc = "connected", !.retryWait = reconnectInterval, !.waits = <<>>]
    /\ mg' = [mg EXCEPT !.connected = TRUE]
    /\ UNCHANGED <<chrome, mons, bg, mq, mlog, ctxDone, nev>>
    /\ UNCHANGED <<coreVars, regVars>>

\* Start, the select that waits for the disconnection
StartWait ==
    /\ mst.pc = "connected"
    /\ \/ /\ ctxDone
          /\ mst' = [mst EXCEPT !.pc = "returned"]
          /\ UNCHANGED mg
       \/ /\ mg.browserCtx = "done"
          /\ mst' = [mst EXCEPT !.pc = "backoff"]
          /\ mg' = [mg EXCEPT !.connected = FALSE]
    /\ UNCHANGED <<chrome, mons, bg, mq, mlog, ctxDone, nev>>
    /\ UNCHANGED <<coreVars, regVars>>

\* Start, the select that waits before retrying. The wait is 5 s at least:
\* the cleanup goroutine of the lost connection has run by the time it ends.
StartBackoff ==
    /\ mst.pc = "backoff"
    /\ \/ /\ ctxDone
          /\ mst' = [mst EXCEPT !.pc = "returned"]
       \/ /\ bg.cleanup.pc = "none"
          /\ mst' = [mst EXCEPT !.pc = "loop",
                              !.waits = Append(@, mst.retryWait),
                              !.retryWait = nextRetryWait(mst.retryWait)]
    /\ UNCHANGED <<chrome, mg, mons, bg, mq, mlog, ctxDone, nev>>
    /\ UNCHANGED <<coreVars, regVars>>

\* the goroutine of handleNewTarget: mon.Start(m.browserCtx), up to the
\* meta.tab_created record or the error of chromedp.Run
MonitorStart(s) ==
    /\ mons[s].start = "spawned"
    /\ LET ran == mg.browserCtx = "live" /\ mons[s].target \in chrome.pages IN
       /\ mons' = [mons EXCEPT ![s] = IF @.stopped THEN FreeMonitor
                                      ELSE [@ EXCEPT !.start = IF ran THEN "running"
                                                                      ELSE "failed"]]
       /\ mlog' = IF ran THEN mlog \cup {<<mons[s].target, "tab_created">>} ELSE mlog
    /\ UNCHANGED <<chrome, mg, mst, bg, mq, ctxDone, nev>>
    /\ UNCHANGED <<coreVars, regVars>>

\* the listener may run: it is registered and its context is not done
ListenerReady(kind) ==
    /\ bg.listening
    /\ bg.listener.pc = "idle"
    /\ mg.browserCtx = "live"
    /\ mq # <<>>
    /\ Head(mq)[1] = kind

\* history: the kinds of target event the handlers returned early on
Ignored(kind, anomaly) == IF anomaly THEN [bg EXCEPT !.ignored = @ \cup {kind}] ELSE bg

\* the listener, case *target.EventTargetCreated (every target here is a page)
ListenerTargetCreated ==
    /\ ListenerReady("created")
    /\ mq' = Tail(mq)
    /\ IF Head(mq)[2] # mg.internalTargetID
       THEN ManagerHandleNewTarget(Head(mq)[2])
       ELSE UNCHANGED <<mg, mons, reg, tabCounter>>
    /\ bg' = Ignored("created", Head(mq)[2] \in Monitored(mg))
    /\ UNCHANGED <<chrome, mst, mlog, ctxDone, nev>>
    /\ UNCHANGED <<coreVars, rpc, rhist>>

\* the listener, case *target.EventTargetDestroyed: handleTargetDestroyed
\* up to m.mu.Unlock
ListenerTargetDestroyed ==
    /\ ListenerReady("destroyed")
    /\ mq' = Tail(mq)
    /\ LET x == Head(mq)[2] IN
       IF x # mg.internalTargetID /\ exists(mg, x)
       THEN /\ mg' = [mg EXCEPT !.tabMonitors[x] = NoMon]
            /\ bg' = [bg EXCEPT !.listener = [pc |-> "stop", mon |-> mg.tabMonitors[x]]]
       ELSE /\ bg' = Ignored("destroyed", x # mg.internalTargetID)
            /\ UNCHANGED mg
    /\ UNCHANGED <<chrome, mons, mst, mlog, ctxDone, nev>>
    /\ UNCHANGED <<coreVars, regVars>>

\* handleTargetDestroyed: mon.Stop()
ListenerDestroyedStop ==
    /\ bg.listener.pc = "stop"
    /\ MonStop(bg.listener.mon)
    /\ bg' = [bg EXCEPT !.listener = [pc |-> "idle", mon |-> NoMon]]
    /\ UNCHANGED <<chrome, mg, mst, mq, ctxDone, nev>>
    /\ UNCHANGED <<coreVars, regVars>>

\* the listener, case *target.EventTargetInfoChanged: handleTargetInfoChanged;
\* the new URL is of another site, HandleSiteChange writes its records
ListenerTargetInfoChanged ==
    /\ ListenerReady("infoChanged")
    /\ mq' = Tail(mq)
    /\ LET x == Head(mq)[2] IN
       IF x # mg.internalTargetID /\ exists(mg, x)
       THEN /\ mlog' = mlog \cup {<<x, "site_changed">>}
            /\ UNCHANGED bg
       ELSE /\ bg' = Ignored("infoChanged", x # mg.internalTargetID)
            /\ UNCHANGED mlog
    /\ UNCHANGED <<chrome, mg, mons, mst, ctxDone, nev>>
    /\ UNCHANGED <<coreVars, regVars>>

\* the cleanup goroutine: <-m.browserCtx.Done(), m.allocatorCancel(), then
\* clearTabMonitors under m.mu: the monitors are collected, the map replaced
clearTabMonitors ==
    /\ bg.cleanup.pc = "waiting"
    /\ mg.browserCtx = "done"
    /\ bg' = [bg EXCEPT !.cleanup = [pc |-> "stopping",
                                     set |-> {mg.tabMonitors[x] : x \in Monitored(mg)}]]
    /\ mg' = [mg EXCEPT !.tabMonitors = [x \in PageTargets |-> NoMon]]
    /\ UNCHANGED <<chrome, mons, mst, mq, mlog, ctxDone, nev>>
    /\ UNCHANGED <<coreVars, regVars>>

\* clearTabMonitors: one turn of the loop that stops the collected monitors
ClearStopMonitor ==
    /\ bg.cleanup.pc = "stopping"
    /\ IF bg.cleanup.set = {}
       THEN /\ bg' = [bg EXCEPT !.cleanup.pc = "none"]
            /\ UNCHANGED <<mons, mlog>>
       ELSE \E s \in bg.cleanup.set :
               /\ MonStop(s)
               /\ bg' = [bg EXCEPT !.cleanup.set = @ \ {s}]
    /\ UNCHANGED <<chrome, mg, mst, mq, ctxDone, nev>>
    /\ UNCHANGED <<coreVars, regVars>>

\* the context of Manager.Start is cancelled (SIGINT): every context derived
\* from it is done
ContextCancel ==
    /\ ~ctxDone
    /\ ctxDone' = TRUE
    /\ mg' = CtxDone(mg)
    /\ bg' = [bg EXCEPT !.listening = FALSE]
    /\ mq' = <<>>
    /\ UNCHANGED <<chrome, mons, mst, mlog, nev>>
    /\ UNCHANGED <<coreVars, regVars>>

\* target events reach the listener while it is registered and connected
Emit(kind, x) ==
    IF bg.listening /\ mg.browserCtx = "live" THEN Append(mq, <<kind, x>>) ELSE mq

ChromeLaunch ==
    /\ nev < MaxChromeEvents
    /\ ~chrome.up
    /\ chrome' = [chrome EXCEPT !.up = TRUE]
    /\ nev' = nev + 1
    /\ UNCHANGED <<mg, mons, mst, bg, mq, mlog, ctxDone>>
    /\ UNCHANGED <<coreVars, regVars>>

ChromeOpenPage ==
    /\ nev < MaxChromeEvents
    /\ chrome.up
    /\ \E x \in UserPages \ chrome.used :
          /\ chrome' = [chrome EXCEPT !.pages = @ \cup {x}, !.used = @ \cup {x}]
          /\ mq' = Emit("created", x)
    /\ nev' = nev + 1
    /\ UNCHANGED <<mg, mons, mst, bg, mlog, ctxDone>>
    /\ UNCHANGED <<coreVars, regVars>>

\* the user closes a page; the anchor of the live connection is left alone
ChromeClosePage ==
    /\ nev < MaxChromeEvents
    /\ \E x \in chrome.pages :
          /\ ~(mg.browserCtx = "live" /\ x = mg.internalTargetID)
          /\ chrome' = [chrome EXCEPT !.pages = @ \ {x}]
          /\ mq' = Emit("destroyed", x)
    /\ nev' = nev + 1
    /\ UNCHANGED <<mg, mons, mst, bg, mlog, ctxDone>>
    /\ UNCHANGED <<coreVars, regVars>>

\* a page goes to a URL of another site
ChromeNavigate ==
    /\ nev < MaxChromeEvents
    /\ \E x \in chrome.pages \cap UserPages :
          mq' = Emit("infoChanged", x)
    /\ nev' = nev + 1
    /\ UNCHANGED <<chrome, mg, mons, mst, bg, mlog, ctxDone>>
    /\ UNCHANGED <<coreVars, regVars>>

\* the websocket of the live connection is lost: Chrome exited, or it runs
\* on with its pages, the tab chromedp opened among them
ChromeDisconnect ==
    /\ nev < MaxChromeEvents
    /\ mg.browserCtx = "live"
    /\ \E exited \in BOOLEAN :
          chrome' = IF exited THEN [chrome EXCEPT !.up = FALSE, !.pages = {}] ELSE chrome
    /\ mg' = CtxDone(mg)
    /\ bg' = [bg EXCEPT !.listening = FALSE]
    /\ mq' = <<>>
    /\ nev' = nev + 1
    /\ UNCHANGED <<mons, mst, mlog, ctxDone>>
    /\ UNCHANGED <<coreVars, regVars>>

InitManager ==
    /\ fm = InitFM
    /\ ioBudget = 0
    /\ pc = [t \in Threads |-> "idle"]
    /\ ltw = [t \in Threads |-> NoWriter]
    /\ lev = [t \in Threads |-> NoEvent]
    /\ lset = [t \in Threads |-> {}]
    /\ acked = {}
    /\ nops = 0
    /\ InitTabVars
    /\ InitRegVars
    /\ chrome \in {[up |-> FALSE, pages |-> {}, used |-> {}],
                   [up |-> TRUE, pages |-> {}, used |-> {}],
                   [up |-> TRUE, pages |-> UserPages, used |-> UserPages]}
    /\ mg = NewManager
    /\ mons = [s \in 1..MaxMonitors |-> FreeMonitor]
    /\ mst = [pc |-> "loop", retryWait |-> reconnectInterval, initialTabs |-> {},
             attempts |-> 0, waits |-> <<>>]
    /\ bg = [listening |-> FALSE, listener |-> [pc |-> "idle", mon |-> NoMon], ignored |-> {},
             cleanup |-> [pc |-> "none", set |-> {}]]
    /\ mq = <<>>
    /\ mlog = {}
    /\ ctxDone = FALSE
    /\ nev = 0

\* Manager.Start, a single goroutine
StartGoroutine ==
    \/ StartLoop
    \/ ConnectDiscover
    \/ ConnectRun
    \/ ConnectListen
    \/ ConnectEnumerate
    \/ ConnectReturn
    \/ StartWait
    \/ StartBackoff

\* the goroutine chromedp runs the ListenTarget callback on
ListenerGoroutine ==
    \/ ListenerTargetCreated
    \/ ListenerTargetDestroyed
    \/ ListenerDestroyedStop
    \/ ListenerTargetInfoChanged

\* the goroutine connect starts to clean up on disconnect
CleanupGoroutine ==
    \/ clearTabMonitors
    \/ ClearStopMonitor

NextManager ==
    \/ StartGoroutine
    \/ ListenerGoroutine
    \/ CleanupGoroutine
    \/ \E s \in 1..MaxMonitors : MonitorStart(s)
    \/ ContextCancel
    \/ ChromeLaunch
    \/ ChromeOpenPage
    \/ ChromeClosePage
    \/ ChromeNavigate
    \/ ChromeDisconnect

ManagerSpec == InitManager /\ [][NextManager]_vars

\* every goroutine of the manager that can take a step eventually takes one
ManagerFairSpec ==
    /\ ManagerSpec
    /\ WF_vars(StartGoroutine)
    /\ WF_vars(ListenerGoroutine)
    /\ WF_vars(CleanupGoroutine)
    /\ \A s \in 1..MaxMonitors : WF_vars(MonitorStart(s))

\* ------------------------------------------------------- the log store alone
InitStore ==
    /\ fm = InitFM
    /\ ioBudget = MaxIOFail
    /\ pc = [t \in Threads |-> "idle"]
    /\ ltw = [t \in Threads |-> NoWriter]
    /\ lev = [t \in Threads |-> NoEvent]
    /\ lset = [t \in Threads |-> {}]
    /\ acked = {}
    /\ nops = 0
    /\ InitTabVars
    /\ InitRegVars
    /\ InitMgrVars

NextStore ==
    \/ \E c \in Clients : ClientWrite(c)
    \/ \E c \in Clients : ClientWriteCS(c)
    \/ \E c \in Clients : ClientCloseTab(c)
    \/ \E c \in Clients : ClientCloseTabCS(c)
    \/ \E c \in Clients : ClientCloseAllForTab(c)
    \/ \E c \in Clients : ClientClose(c)
    \/ \E c \in Clients : ClientCloseLoop(c)
    \/ \E i \in 1..MaxTimers : TimerFire(i)
    \/ \E i \in 1..MaxTimers : TimerRun(i)

StoreSpec == InitStore /\ [][NextStore]_vars

\* ------------------------------------- one tab: browser, manager, monitor, store
Init ==
    /\ fm = InitFM
    /\ ioBudget = 0
    /\ pc = [t \in Threads |-> "idle"]
    /\ ltw = [t \in Threads |-> NoWriter]
    /\ lev = [t \in Threads |-> NoEvent]
    /\ lset = [t \in Threads |-> {}]
    /\ acked = {}
    /\ nops = 0
    /\ InitTabVars
    /\ InitRegVars
    /\ InitMgrVars

Next ==
    \/ BrowserOpenTab
    \/ BrowserNavigate
    \/ BrowserTabEvent
    \/ BrowserCloseTab
    \/ handleNewTarget
    \/ handleTargetDestroyed
    \/ handleTargetInfoChanged
    \/ HandleSiteChangeSet
    \/ HandleSiteChangeUnlock
    \/ StopSnapshot
    \/ StopCancel
    \/ StartEnable
    \/ StartCreatedEvent
    \/ StartListen
    \/ StartReturn
    \/ DropEvent
    \/ handleFrameNavigated
    \/ FrameNavigatedSetURL
    \/ handleLoadEventFired
    \/ LoadEventReadURL
    \/ handleLoadingFinished
    \/ captureBodyFetch
    \/ \E t \in TabThreads : WriteEventEnter(t)
    \/ \E t \in TabThreads : WriteEventBody(t)
    \/ \E t \in TabThreads : CloseTabEnter(t)
    \/ \E t \in TabThreads : CloseTabBody(t)
    \/ \E i \in 1..MaxTimers : TimerFire(i)
    \/ \E i \in 1..MaxTimers : TimerRun(i)

Spec == Init /\ [][Next]_vars

\* ------------------------------- the session record, then one tab (see Spec)
\* Manager.Start: the session event is built
ManagerStartSession ==
    /\ pc["main"] = "start"
    /\ lev' = [lev EXCEPT !["main"] = NewSessionStartEvent]
    /\ Goto("main", "session_getw")
    /\ UNCHANGED <<storeVars, lset, nops, tabVars>>
    /\ UNCHANGED extVars

\* m.fileManager.WriteEvent("_session", sessionEvent), first half
SessionWriteEnter ==
    /\ pc["main"] = "session_getw"
    /\ getWriter("main", "_session", lev["main"].site, "session_cs", "connect")
    /\ UNCHANGED <<lev, lset, acked, nops, tabVars>>
    /\ UNCHANGED extVars

\* second half; the reconnection loop follows
SessionWriteBody ==
    /\ pc["main"] = "session_cs"
    /\ WriteEventCS("main", "connect")
    /\ UNCHANGED <<ltw, lev, lset, nops, tabVars>>
    /\ UNCHANGED extVars

InitSession ==
    /\ fm = InitFM
    /\ ioBudget = 0
    /\ pc = [t \in Threads |-> IF t = "main" THEN "start" ELSE "idle"]
    /\ ltw = [t \in Threads |-> NoWriter]
    /\ lev = [t \in Threads |-> NoEvent]
    /\ lset = [t \in Threads |-> {}]
    /\ acked = {}
    /\ nops = 0
    /\ InitTabVars
    /\ InitRegVars
    /\ InitMgrVars

\* the browser's targets are looked at once the session record is written
NextSession ==
    \/ ManagerStartSession
    \/ SessionWriteEnter
    \/ SessionWriteBody
    \/ (pc["main"] = "connect" /\ Next)

SessionSpec == InitSession /\ [][NextSession]_vars

\* the same run on a disk that fails one I/O call (ENOSPC, EIO): Start only
\* logs the error of the session write and goes on to the reconnection loop
InitSessionFault ==
    /\ fm = InitFM
    /\ ioBudget = MaxIOFail
    /\ pc = [t \in Threads |-> IF t = "main" THEN "start" ELSE "idle"]
    /\ ltw = [t \in Threads |-> NoWriter]
    /\ lev = [t \in Threads |-> NoEvent]
    /\ lset = [t \in Threads |-> {}]
    /\ acked = {}
    /\ nops = 0
    /\ InitTabVars
    /\ InitRegVars
    /\ InitMgrVars

\* the session record, then a tab that is opened, monitored and sends events
NextSessionFault ==
    \/ ManagerStartSession
    \/ SessionWriteEnter
    \/ SessionWriteBody
    \/ (pc["main"] = "connect" /\ BrowserOpenTab)
    \/ (pc["main"] = "connect" /\ BrowserTabEvent)
    \/ (pc["main"] = "connect" /\ handleNewTarget)
    \/ StartEnable
    \/ StartCreatedEvent
    \/ StartListen
    \/ handleLoadEventFired
    \/ LoadEventReadURL
    \/ handleLoadingFinished
    \/ captureBodyFetch
    \/ \E t \in TabThreads : WriteEventEnter(t)
    \/ \E t \in TabThreads : WriteEventBody(t)
    \/ \E i \in 1..MaxTimers : TimerFire(i)
    \/ \E i \in 1..MaxTimers : TimerRun(i)

SessionFaultSpec == InitSessionFault /\ [][NextSessionFault]_vars

\* ------------------------------------------ one tab, then the shutdown
\* main: the signal cancels the context of Manager.Start, and with it the
\* browser context, the target context and tm.ctx of the monitor
ShutdownSignal ==
    /\ ~ctxDone
    /\ ctxDone' = TRUE
    /\ listening' = FALSE
    /\ tm' = IF tm = NoMonitor THEN tm ELSE [tm EXCEPT !.cancelled = TRUE]
    /\ qMgr' = <<>>
    /\ UNCHANGED <<storeVars, pc, lev, lset, nops, m, tmMu, br, qTab>>
    /\ UNCHANGED <<regVars, chrome, mg, mons, mst, bg, mq, mlog, nev>>

\* main calls Manager.Stop: the cancel functions, then under m.mu the monitors
\* are collected and the map replaced; mon.Stop() follows for the monitor
ManagerStopCollect ==
    /\ pc["main"] = "idle"
    /\ ctxDone
    /\ m' = [m EXCEPT !.tabMonitors = {}]
    /\ Goto("main", IF TargetX \in m.tabMonitors THEN "stop_snap" ELSE "mstop_close")
    /\ UNCHANGED <<storeVars, lev, lset, nops, tm, tmMu, listening, br, qMgr, qTab>>
    /\ UNCHANGED extVars

\* Manager.Stop: m.fileManager.Close() under fm.mu
ManagerStopClose ==
    /\ pc["main"] = "mstop_close"
    /\ lset' = [lset EXCEPT !["main"] =
                    {fm.files[k] : k \in {k \in Keys : fm.files[k] # NoWriter}}]
    /\ fm' = [fm EXCEPT !.files = [k \in Keys |-> NoWriter]]
    /\ Goto("main", "mstop_loop")
    /\ UNCHANGED <<ioBudget, ltw, lev, acked, nops, tabVars>>
    /\ UNCHANGED extVars

\* fileManager.Close: the loop over the writers; after it Manager.Stop returns
ManagerStopCloseLoop ==
    /\ pc["main"] = "mstop_loop"
    /\ IF lset["main"] = {}
       THEN Goto("main", "stopped") /\ UNCHANGED <<fm, lset>>
       ELSE \E w \in lset["main"] :
               /\ fm' = CloseLoopLocked(fm, w, 0).st
               /\ lset' = [lset EXCEPT !["main"] = @ \ {w}]
               /\ UNCHANGED pc
    /\ UNCHANGED <<ioBudget, ltw, lev, acked, nops, tabVars>>
    /\ UNCHANGED extVars

ShutdownThreads == TabThreads \cup {"main"}

\* one tab that is opened, monitored and sends page events, until the shutdown
NextShutdown ==
    \/ (~ctxDone /\ BrowserOpenTab)
    \/ (~ctxDone /\ BrowserTabEvent)
    \/ (~ctxDone /\ handleNewTarget)
    \/ StartEnable
    \/ StartCreatedEvent
    \/ StartListen
    \/ StartReturn
    \/ DropEvent
    \/ handleLoadEventFired
    \/ LoadEventReadURL
    \/ handleLoadingFinished
    \/ captureBodyFetch
    \/ \E t \in ShutdownThreads : WriteEventEnter(t)
    \/ \E t \in ShutdownThreads : WriteEventBody(t)
    \/ \E t \in ShutdownThreads : CloseTabEnter(t)
    \/ \E t \in ShutdownThreads : CloseTabBody(t)
    \/ \E i \in 1..MaxTimers : TimerFire(i)
    \/ \E i \in 1..MaxTimers : TimerRun(i)
    \/ ShutdownSignal
    \/ ManagerStopCollect
    \/ StopSnapshotBy("main")
    \/ StopCancelBy("main")
    \/ ManagerStopClose
    \/ ManagerStopCloseLoop

ShutdownSpec == Init /\ [][NextShutdown]_vars

\* ------------------------- one tab with network traffic, until it is closed
NextNetwork ==
    \/ BrowserOpenTab
    \/ BrowserNetworkEvent
    \/ BrowserCloseTab
    \/ handleNewTarget
    \/ handleTargetDestroyed
    \/ StopSnapshot
    \/ StopCancel
    \/ StartEnable
    \/ StartCreatedEvent
    \/ StartListen
    \/ StartReturn
    \/ DropEvent
    \/ handleRequestWillBeSent
    \/ handleResponseReceived
    \/ trackResponse
    \/ handleNetLoadingFinished
    \/ handleLoadingFailed
    \/ captureBodyFetch
    \/ \E t \in TabThreads : WriteEventEnter(t)
    \/ \E t \in TabThreads : WriteEventBody(t)
    \/ \E t \in TabThreads : CloseTabEnter(t)
    \/ \E t \in TabThreads : CloseTabBody(t)
    \/ \E i \in 1..MaxTimers : TimerFire(i)
    \/ \E i \in 1..MaxTimers : TimerRun(i)

NetworkSpec == Init /\ [][NextNetwork]_vars

\* --------------------------------- the manager's fields, access by access
\* main runs Manager.Start, the listener runs the callback of connect for one
\* event at a time, c2 runs the cleanup goroutine of connect, and c1 is a
\* goroutine of the program that calls IsConnected and GetActiveTabCount.
\* Every Lock and RLock of m.mu is a step; a goroutine's position says
\* whether it holds m.mu and which field its next statement reads or writes.
MuThreads == {"main", "listener", "c1", "c2"}

\* what the steps of this part leave alone
muRest == <<fm, ioBudget, ltw, lev, lset, acked, tabVars, regVars, chrome, mons, mlog, ctxDone>>

\* where a goroutine holds m.mu exclusively
MuLockHeldAt == {"hnt_cs", "htd_cs", "ctm_cs"}

\* where a goroutine holds m.mu shared
MuRLockHeldAt == {"hic_cs", "ic_read", "gc_read"}

MuWriters == {t \in MuThreads : pc[t] \in MuLockHeldAt}

MuReaders == {t \in MuThreads : pc[t] \in MuRLockHeldAt}

\* the field the statement at a position accesses, and how
AccessAt ==
    [connect_anchor |-> {<<"internalTargetID", "w">>},
     connect_enum |-> {<<"internalTargetID", "r">>},
     start_connected |-> {<<"connected", "w">>},
     start_disconnected |-> {<<"connected", "w">>},
     cb_filter |-> {<<"internalTargetID", "r">>},
     hnt_cs |-> {<<"tabMonitors", "r">>, <<"tabMonitors", "w">>},
     htd_cs |-> {<<"tabMonitors", "r">>, <<"tabMonitors", "w">>},
     ctm_cs |-> {<<"tabMonitors", "r">>, <<"tabMonitors", "w">>},
     hic_cs |-> {<<"tabMonitors", "r">>},
     ic_read |-> {<<"connected", "r">>},
     gc_read |-> {<<"tabMonitors", "r">>}]

Accesses(t) == IF pc[t] \in DOMAIN AccessAt THEN AccessAt[pc[t]] ELSE {}

\* Start: m.connect(ctx) is called; DiscoverTabs returns the page or nothing
MuConnect ==
    /\ pc["main"] = "idle"
    /\ mg.nconn < MaxConnects
    /\ mg' = [mg EXCEPT !.nconn = @ + 1, !.browserCtx = "live"]
    /\ \E tabs \in SUBSET UserPages : mst' = [mst EXCEPT !.initialTabs = tabs]
    /\ Goto("main", "connect_anchor")
    /\ UNCHANGED <<nops, bg, mq, nev, muRest>>

\* connect: m.internalTargetID = string(c.Target.TargetID)
MuSetAnchor ==
    /\ pc["main"] = "connect_anchor"
    /\ mg' = [mg EXCEPT !.internalTargetID = AnchorOf[mg.nconn]]
    /\ Goto("main", "connect_listen")
    /\ UNCHANGED <<nops, mst, bg, mq, nev, muRest>>

\* connect: chromedp.ListenTarget(m.browserCtx, ...) and the cleanup goroutine
MuListenTarget ==
    /\ pc["main"] = "connect_listen"
    /\ pc["c2"] = "idle"
    /\ bg' = [bg EXCEPT !.listening = TRUE]
    /\ pc' = [pc EXCEPT !["main"] = "connect_enum", !["c2"] = "ctm_wait"]
    /\ UNCHANGED <<nops, mg, mst, mq, nev, muRest>>

\* connect: the loop over initialTabs, tab.TargetID != m.internalTargetID
MuEnumerate ==
    /\ pc["main"] = "connect_enum"
    /\ IF mst.initialTabs = {}
       THEN /\ Goto("main", "start_connected")
            /\ UNCHANGED <<mst, lev>>
       ELSE \E x \in mst.initialTabs :
               /\ mst' = [mst EXCEPT !.initialTabs = @ \ {x}]
               /\ IF x # mg.internalTargetID
                  THEN /\ lev' = [lev EXCEPT !["main"] = [NoEvent EXCEPT !.data = x]]
                       /\ Goto("main", "hnt_lock")
                  ELSE UNCHANGED <<lev, pc>>
    /\ UNCHANGED <<fm, ioBudget, ltw, lset, acked, tabVars, regVars, chrome, mons, mlog, ctxDone>>
    /\ UNCHANGED <<nops, mg, bg, mq, nev>>

\* Start: m.connected = true
MuSetConnected ==
    /\ pc["main"] = "start_connected"
    /\ mg' = [mg EXCEPT !.connected = TRUE]
    /\ Goto("main", "start_wait")
    /\ UNCHANGED <<nops, mst, bg, mq, nev, muRest>>

\* Start: <-m.browserCtx.Done()
MuDisconnected ==
    /\ pc["main"] = "start_wait"
    /\ mg.browserCtx = "done"
    /\ Goto("main", "start_disconnected")
    /\ UNCHANGED <<nops, mg, mst, bg, mq, nev, muRest>>

\* Start: m.connected = false, then the wait and the next connect
MuClearConnected ==
    /\ pc["main"] = "start_disconnected"
    /\ mg' = [mg EXCEPT !.connected = FALSE]
    /\ Goto("main", "idle")
    /\ UNCHANGED <<nops, mst, bg, mq, nev, muRest>>

\* the callback of ListenTarget is called with the next event
MuCallback ==
    /\ pc["listener"] = "idle"
    /\ bg.listening /\ mg.browserCtx = "live"
    /\ mq # <<>>
    /\ mq' = Tail(mq)
    /\ lev' = [lev EXCEPT !["listener"] =
                  [NoEvent EXCEPT !.event_type = <<"target", Head(mq)[1]>>, !.data = Head(mq)[2]]]
    /\ Goto("listener", "cb_filter")
    /\ UNCHANGED <<fm, ioBudget, ltw, lset, acked, tabVars, regVars, chrome, mons, mlog, ctxDone>>
    /\ UNCHANGED <<nops, mg, mst, bg, nev>>

\* the callback: the comparison with m.internalTargetID, then the handler
MuFilter ==
    /\ pc["listener"] = "cb_filter"
    /\ Goto("listener",
            CASE lev["listener"].data = mg.internalTargetID -> "idle"
              [] lev["listener"].event_type[2] = "created" -> "hnt_lock"
              [] lev["listener"].event_type[2] = "destroyed" -> "htd_lock"
              [] OTHER -> "hic_rlock")
    /\ UNCHANGED <<nops, mg, mst, bg, mq, nev, muRest>>

\* m.mu.Lock() returns
MuLock(t) ==
    /\ pc[t] \in {"hnt_lock", "htd_lock", "ctm_lock"}
    /\ MuWriters = {} /\ MuReaders = {}
    /\ Goto(t, CASE pc[t] = "hnt_lock" -> "hnt_cs"
                 [] pc[t] = "htd_lock" -> "htd_cs"
                 [] OTHER -> "ctm_cs")
    /\ UNCHANGED <<nops, mg, mst, bg, mq, nev, muRest>>

\* m.mu.RLock() returns
MuRLock(t) ==
    /\ pc[t] \in {"hic_rlock", "ic_rlock", "gc_rlock"}
    /\ MuWriters = {}
    /\ Goto(t, CASE pc[t] = "hic_rlock" -> "hic_cs"
                 [] pc[t] = "ic_rlock" -> "ic_read"
                 [] OTHER -> "gc_read")
    /\ UNCHANGED <<nops, mg, mst, bg, mq, nev, muRest>>

\* handleNewTarget under m.mu: the lookup, the new entry, the deferred Unlock
MuHandleNewTarget(t) ==
    /\ pc[t] = "hnt_cs"
    /\ mg' = IF mg.tabMonitors[lev[t].data] # NoMon THEN mg
             ELSE [mg EXCEPT !.tabMonitors[lev[t].data] = 1]
    /\ Goto(t, IF t = "main" THEN "connect_enum" ELSE "idle")
    /\ UNCHANGED <<nops, mst, bg, mq, nev, muRest>>

\* handleTargetDestroyed under m.mu: the lookup, the delete, m.mu.Unlock()
MuHandleTargetDestroyed ==
    /\ pc["listener"] = "htd_cs"
    /\ mg' = [mg EXCEPT !.tabMonitors[lev["listener"].data] = NoMon]
    /\ Goto("listener", "idle")
    /\ UNCHANGED <<nops, mst, bg, mq, nev, muRest>>

\* handleTargetInfoChanged under m.mu.RLock: the lookup, m.mu.RUnlock()
MuHandleTargetInfoChanged ==
    /\ pc["listener"] = "hic_cs"
    /\ Goto("listener", "idle")
    /\ UNCHANGED <<nops, mg, mst, bg, mq, nev, muRest>>

\* the cleanup goroutine: <-m.browserCtx.Done(), then clearTabMonitors
MuCleanupWake ==
    /\ pc["c2"] = "ctm_wait"
    /\ mg.browserCtx = "done"
    /\ Goto("c2", "ctm_lock")
    /\ UNCHANGED <<nops, mg, mst, bg, mq, nev, muRest>>

\* clearTabMonitors under m.mu: the map is replaced, m.mu.Unlock()
MuClearTabMonitors ==
    /\ pc["c2"] = "ctm_cs"
    /\ mg' = [mg EXCEPT !.tabMonitors = [x \in PageTargets |-> NoMon]]
    /\ Goto("c2", "idle")
    /\ UNCHANGED <<nops, mst, bg, mq, nev, muRest>>

\* m.IsConnected() or m.GetActiveTabCount() is called
MuCall ==
    /\ pc["c1"] = "idle"
    /\ nops < MaxOps
    /\ nops' = nops + 1
    /\ \E l \in {"ic_rlock", "gc_rlock"} : Goto("c1", l)
    /\ UNCHANGED <<mg, mst, bg, mq, nev, muRest>>

\* IsConnected, GetActiveTabCount: the read, the deferred RUnlock
MuReturn ==
    /\ pc["c1"] \in {"ic_read", "gc_read"}
    /\ Goto("c1", "idle")
    /\ UNCHANGED <<nops, mg, mst, bg, mq, nev, muRest>>

\* the browser reports a target event of the page or of the anchor
MuTargetEvent ==
    /\ mg.browserCtx = "live" /\ bg.listening
    /\ nev < MaxChromeEvents
    /\ nev' = nev + 1
    /\ \E kind \in {"created", "destroyed", "infoChanged"},
          x \in UserPages \cup {mg.internalTargetID} :
          mq' = Append(mq, <<kind, x>>)
    /\ UNCHANGED <<pc, nops, mg, mst, bg, muRest>>

\* the connection to the browser is lost: the browser context is done, the
\* listener is called no more
MuDisconnect ==
    /\ mg.browserCtx = "live" /\ bg.listening
    /\ mg' = [mg EXCEPT !.browserCtx = "done"]
    /\ bg' = [bg EXCEPT !.listening = FALSE]
    /\ mq' = <<>>
    /\ UNCHANGED <<pc, nops, mst, nev, muRest>>

NextMu ==
    \/ MuConnect
    \/ MuSetAnchor
    \/ MuListenTarget
    \/ MuEnumerate
    \/ MuSetConnected
    \/ MuDisconnected
    \/ MuClearConnected
    \/ MuCallback
    \/ MuFilter
    \/ \E t \in MuThreads : MuLock(t)
    \/ \E t \in MuThreads : MuRLock(t)
    \/ \E t \in MuThreads : MuHandleNewTarget(t)
    \/ MuHandleTargetDestroyed
    \/ MuHandleTargetInfoChanged
    \/ MuCleanupWake
    \/ MuClearTabMonitors
    \/ MuCall
    \/ MuReturn
    \/ MuTargetEvent
    \/ MuDisconnect

MuSpec == Init /\ [][NextMu]_vars

\* ------------------------------------------------------------ the redactor
\* Strings are sequences of code points.  A body is the sequence of the JSON
\* tokens of its text: <<"{">>, <<"}">>, <<"[">>, <<"]">>, <<",">>, <<":">>,
\* <<" ">> (white space), <<"true">>, <<"null">>, <<"s", chars>> (a string
\* literal) and <<"n", hi, lo>> (the integer literal hi * 2^27 + lo).
RedactedValue == <<91, 82, 69, 68, 65, 67, 84, 69, 68, 93>>

\* "cookie", of DefaultHeaderDenylist
DefaultHeaderDenylist == <<<<99, 111, 111, 107, 105, 101>>>>

\* "token", "auth", "ssn", "cvv", "pin": the entries of
\* DefaultBodyFieldDenylist of at most five letters
DefaultBodyFieldDenylist ==
    <<<<116, 111, 107, 101, 110>>, <<97, 117, 116, 104>>, <<115, 115, 110>>,
      <<99, 118, 118>>, <<112, 105, 110>>>>

\* redact.New
New(enabled) ==
    [enabled |-> enabled,
     headerDenylist |-> DefaultHeaderDenylist,
     bodyFieldDenylist |-> DefaultBodyFieldDenylist]

\* strings.ToLower, on ASCII
ToLower(str) == [i \in 1..Len(str) |-> IF 65 <= str[i] /\ str[i] <= 90 THEN str[i] + 32 ELSE str[i]]

\* strings.Contains
Contains(str, substr) ==
    \E i \in 0..(Len(str) - Len(substr)) : SubSeq(str, i + 1, i + Len(substr)) = substr

\* strings.EqualFold, on ASCII
matchHeaderName(actual, pattern) == ToLower(actual) = ToLower(pattern)

matchBodyFieldName(actual, pattern) ==
    \/ ToLower(actual) = ToLower(pattern)
    \/ Contains(ToLower(actual), ToLower(pattern))

shouldRedactHeader(r, name) ==
    \E i \in DOMAIN r.headerDenylist : matchHeaderName(name, r.headerDenylist[i])

shouldRedactBodyField(r, name) ==
    \E i \in DOMAIN r.bodyFieldDenylist : matchBodyFieldName(name, r.bodyFieldDenylist[i])

\* a header map: nil, or the map m
NilHeaders == [nil |-> TRUE, m |-> <<>>]

RedactHeaders(r, headers) ==
    IF ~r.enabled \/ headers.nil THEN headers
    ELSE [nil |-> FALSE,
          m |-> [key \in DOMAIN headers.m |->
                    IF shouldRedactHeader(r, key) THEN RedactedValue ELSE headers.m[key]]]

\* the values json.Unmarshal stores in an interface{}
StringValue(chars) == [k |-> "string", s |-> chars]

NumberValue(hi, lo) == [k |-> "float64", hi |-> hi, lo |-> lo]

MapValue(mp) == [k |-> "map", m |-> mp]

SliceValue(items) == [k |-> "slice", s |-> items]

RECURSIVE SkipSpace(_)
SkipSpace(ts) == IF ts # <<>> /\ Head(ts)[1] = " " THEN SkipSpace(Tail(ts)) ELSE ts

SyntaxError == [ok |-> FALSE]

Parsed(v, rest) == [ok |-> TRUE, v |-> v, rest |-> rest]

\* the decoder of encoding/json: value, object and array.  A number is kept
\* as its literal here; a later key of an object replaces an earlier equal one.
RECURSIVE ParseValue(_), ParseObject(_, _), ParseArray(_, _)
ParseValue(ts) ==
    LET t == SkipSpace(ts) IN
    IF t = <<>> THEN SyntaxError
    ELSE CASE Head(t)[1] = "s" -> Parsed(StringValue(Head(t)[2]), Tail(t))
           [] Head(t)[1] = "n" -> Parsed(NumberValue(Head(t)[2], Head(t)[3]), Tail(t))
           [] Head(t)[1] = "true" -> Parsed([k |-> "bool", b |-> TRUE], Tail(t))
           [] Head(t)[1] = "null" -> Parsed([k |-> "nil"], Tail(t))
           [] Head(t)[1] = "{" ->
                LET u == SkipSpace(Tail(t)) IN
                IF u # <<>> /\ Head(u)[1] = "}" THEN Parsed(MapValue(<<>>), Tail(u))
                ELSE ParseObject(u, <<>>)
           [] Head(t)[1] = "[" ->
                LET u == SkipSpace(Tail(t)) IN
                IF u # <<>> /\ Head(u)[1] = "]" THEN Parsed(SliceValue(<<>>), Tail(u))
                ELSE ParseArray(u, <<>>)
           [] OTHER -> SyntaxError

ParseObject(ts, mp) ==
    IF ts = <<>> \/ Head(ts)[1] # "s" THEN SyntaxError
    ELSE LET key == Head(ts)[2]
             c == SkipSpace(Tail(ts))
         IN  IF c = <<>> \/ Head(c)[1] # ":" THEN SyntaxError
             ELSE LET r == ParseValue(Tail(c)) IN
                  IF ~r.ok THEN SyntaxError
                  ELSE LET m2 == [x \in DOMAIN mp \cup {key} |-> IF x = key THEN r.v ELSE mp[x]]
                           d == SkipSpace(r.rest)
                       IN  IF d = <<>> THEN SyntaxError
                           ELSE IF Head(d)[1] = "}" THEN Parsed(MapValue(m2), Tail(d))
                           ELSE IF Head(d)[1] = "," THEN ParseObject(SkipSpace(Tail(d)), m2)
                           ELSE SyntaxError

ParseArray(ts, items) ==
    LET r == ParseValue(ts) IN
    IF ~r.ok THEN SyntaxError
    ELSE LET d == SkipSpace(r.rest) IN
         IF d = <<>> THEN SyntaxError
         ELSE IF Head(d)[1] = "]" THEN Parsed(SliceValue(Append(items, r.v)), Tail(d))
         ELSE IF Head(d)[1] = "," THEN ParseArray(Tail(d), Append(items, r.v))
         ELSE SyntaxError

\* the whole text is one value
Parse(body) ==
    LET r == ParseValue(body) IN
    IF r.ok /\ SkipSpace(r.rest) = <<>> THEN r ELSE SyntaxError

\* strconv.ParseFloat(s, 64) of an integer literal below 2^54: exact below
\* 2^53, the nearest even integer from there on, ties to the even mantissa
ParseFloat(hi, lo) ==
    IF hi < 67108864 \/ lo % 2 = 0 THEN NumberValue(hi, lo)
    ELSE IF lo % 4 = 1 THEN NumberValue(hi, lo - 1)
    ELSE IF lo + 1 = 134217728 THEN NumberValue(hi + 1, 0)
    ELSE NumberValue(hi, lo + 1)

\* decodeState.convertNumber on every number of a decoded value
RECURSIVE convertNumber(_)
convertNumber(v) ==
    CASE v.k = "float64" -> ParseFloat(v.hi, v.lo)
      [] v.k = "map" -> MapValue([key \in DOMAIN v.m |-> convertNumber(v.m[key])])
      [] v.k = "slice" -> SliceValue([i \in DOMAIN v.s |-> convertNumber(v.s[i])])
      [] OTHER -> v

\* json.Unmarshal([]byte(body), &data) with data an interface{}
Unmarshal(body) ==
    LET r == Parse(body) IN
    IF r.ok THEN [ok |-> TRUE, v |-> convertNumber(r.v)] ELSE SyntaxError

\* the order of sort.Strings
RECURSIVE Less(_, _)
Less(a, b) ==
    IF a = <<>> THEN b # <<>>
    ELSE IF b = <<>> THEN FALSE
    ELSE IF Head(a) = Head(b) THEN Less(Tail(a), Tail(b))
    ELSE Head(a) < Head(b)

\* json.Marshal: no white space, the keys of an object sorted
RECURSIVE Marshal(_), MarshalObject(_, _), MarshalArray(_)
Marshal(v) ==
    CASE v.k = "string" -> <<<<"s", v.s>>>>
      [] v.k = "float64" -> <<<<"n", v.hi, v.lo>>>>
      [] v.k = "bool" -> <<<<"true">>>>
      [] v.k = "nil" -> <<<<"null">>>>
      [] v.k = "map" -> <<<<"{">>>> \o MarshalObject(v.m, DOMAIN v.m) \o <<<<"}">>>>
      [] v.k = "slice" -> <<<<"[">>>> \o MarshalArray(v.s) \o <<<<"]">>>>

MarshalObject(mp, keys) ==
    IF keys = {} THEN <<>>
    ELSE LET key == CHOOSE a \in keys : \A b \in keys : a = b \/ Less(a, b) IN
         <<<<"s", key>>, <<":">>>> \o Marshal(mp[key]) \o
         (IF keys = {key} THEN <<>> ELSE <<<<",">>>> \o MarshalObject(mp, keys \ {key}))

MarshalArray(items) ==
    IF items = <<>> THEN <<>>
    ELSE Marshal(Head(items)) \o
         (IF Len(items) = 1 THEN <<>> ELSE <<<<",">>>> \o MarshalArray(Tail(items)))

RECURSIVE redactValue(_, _)
redactMap(r, mp) ==
    [key \in DOMAIN mp |->
        IF shouldRedactBodyField(r, key) THEN StringValue(RedactedValue)
        ELSE redactValue(r, mp[key])]

redactSlice(r, items) == [i \in DOMAIN items |-> redactValue(r, items[i])]

redactValue(r, v) ==
    CASE v.k = "map" -> MapValue(redactMap(r, v.m))
      [] v.k = "slice" -> SliceValue(redactSlice(r, v.s))
      [] OTHER -> v

\* a RedactBody that does not look at r.enabled
RedactBodyAlways(r, body) ==
    IF body = <<>> THEN body
    ELSE LET data == Unmarshal(body) IN
         IF ~data.ok THEN body ELSE Marshal(redactValue(r, data.v))

RedactBody(r, body) ==
    IF ~r.enabled \/ body = <<>> THEN body
    ELSE LET data == Unmarshal(body) IN
         IF ~data.ok THEN body ELSE Marshal(redactValue(r, data.v))

\* the header maps and the bodies a response can carry
HeaderNames == {<<67, 111, 111, 107, 105, 101>>, <<99, 111, 111, 107, 105, 101>>,
                <<65, 99, 99, 101, 112, 116>>}

HeaderValues == {<<118>>, RedactedValue}

HeaderMaps ==
    {NilHeaders} \cup
    UNION {{[nil |-> FALSE, m |-> f] : f \in [names -> HeaderValues]} : names \in SUBSET HeaderNames}

\* "pin", "PIN", "spin", "id"
KeyPin == <<"s", <<112, 105, 110>>>>

KeyPIN == <<"s", <<80, 73, 78>>>>

KeySpin == <<"s", <<115, 112, 105, 110>>>>

KeyID == <<"s", <<105, 100>>>>

StrX == <<"s", <<120>>>>

\* 7, and 2^53 + 1 = 9007199254740993
NumSmall == <<"n", 0, 7>>

NumBig == <<"n", 67108864, 1>>

Tokens == {<<"{">>, <<"}">>, <<"[">>, <<"]">>, <<",">>, <<":">>, <<" ">>, <<"true">>, <<"null">>,
           KeyPin, KeyID, NumSmall}

RECURSIVE TokenSeqs(_)
TokenSeqs(n) ==
    IF n = 0 THEN {<<>>}
    ELSE LET shorter == TokenSeqs(n - 1) IN
         shorter \cup {Append(ts, t) : ts \in {x \in shorter : Len(x) = n - 1}, t \in Tokens}

\* bodies of the shapes of TestRedactBody and of longer texts
SampleBodies ==
    {<<<<"{">>, KeyID, <<":">>, StrX, <<",">>, KeyPin, <<":">>, StrX, <<"}">>>>,
     <<<<"{">>, KeyPin, <<":">>, StrX, <<",">>, KeyID, <<":">>, NumSmall, <<"}">>>>,
     <<<<"{">>, KeyID, <<":">>, <<"{">>, KeyPIN, <<":">>, StrX, <<",">>, KeyID, <<":">>, StrX, <<"}">>, <<"}">>>>,
     <<<<"[">>, <<"{">>, KeySpin, <<":">>, StrX, <<"}">>, <<",">>, <<"{">>, KeyPin, <<":">>, NumSmall, <<"}">>, <<"]">>>>,
     <<<<"{">>, KeyPin, <<":">>, <<"{">>, KeyPin, <<":">>, StrX, <<"}">>, <<"}">>>>,
     <<<<"{">>, KeyPin, <<":">>, <<"s", RedactedValue>>, <<"}">>>>,
     <<<<"{">>, KeyID, <<":">>, NumSmall, <<",">>, KeyID, <<":">>, StrX, <<"}">>>>,
     <<<<"{">>, <<" ">>, KeyID, <<" ">>, <<":">>, <<"[">>, NumSmall, <<",">>, <<" ">>, <<"true">>, <<"]">>, <<" ">>, <<"}">>>>,
     <<<<"{">>, KeyID, <<":">>, NumBig, <<"}">>>>,
     <<<<"[">>, NumBig, <<"]">>>>,
     <<<<"{">>, KeyPin, <<":">>, StrX, <<",">>, <<"}">>>>,
     <<<<"{">>, KeyPin, <<":">>, StrX, <<"}">>, StrX>>}

Bodies == TokenSeqs(MaxTokens) \cup SampleBodies

\* the goroutine c1 holds a redactor and one input, and redacts it twice
InitRedact ==
    /\ fm = InitFM
    /\ ioBudget = 0
    /\ pc = [t \in Threads |-> "idle"]
    /\ ltw = [t \in Threads |-> NoWriter]
    /\ \E enabled \in BOOLEAN :
          \/ \E headers \in HeaderMaps :
                lev = [t \in Threads |->
                         IF t = "c1"
                         THEN [r |-> New(enabled), op |-> "headers", input |-> headers,
                               once |-> NilHeaders, twice |-> NilHeaders]
                         ELSE NoEvent]
          \/ \E body \in Bodies :
                lev = [t \in Threads |->
                         IF t = "c1"
                         THEN [r |-> New(enabled), op |-> "body", input |-> body,
                               once |-> <<>>, twice |-> <<>>]
                         ELSE NoEvent]
    /\ lset = [t \in Threads |-> {}]
    /\ acked = {}
    /\ nops = 0
    /\ InitTabVars
    /\ InitRegVars
    /\ InitMgrVars

redactRest == <<fm, ioBudget, ltw, lset, acked, nops, tabVars, extVars>>

\* headers = tm.redactor.RedactHeaders(headers)
RedactHeadersCall ==
    /\ pc["c1"] = "idle"
    /\ lev["c1"].op = "headers"
    /\ lev' = [lev EXCEPT !["c1"].once = RedactHeaders(lev["c1"].r, lev["c1"].input)]
    /\ Goto("c1", "once")
    /\ UNCHANGED redactRest

\* the result goes through RedactHeaders again
RedactHeadersAgain ==
    /\ pc["c1"] = "once"
    /\ lev["c1"].op = "headers"
    /\ lev' = [lev EXCEPT !["c1"].twice = RedactHeaders(lev["c1"].r, lev["c1"].once)]
    /\ Goto("c1", "twice")
    /\ UNCHANGED redactRest

\* bodyStr = tm.redactor.RedactBody(bodyStr)
RedactBodyCall ==
    /\ pc["c1"] = "idle"
    /\ lev["c1"].op = "body"
    /\ lev' = [lev EXCEPT !["c1"].once = RedactBody(lev["c1"].r, lev["c1"].input)]
    /\ Goto("c1", "once")
    /\ UNCHANGED redactRest

\* the result goes through RedactBody again
RedactBodyAgain ==
    /\ pc["c1"] = "once"
    /\ lev["c1"].op = "body"
    /\ lev' = [lev EXCEPT !["c1"].twice = RedactBody(lev["c1"].r, lev["c1"].once)]
    /\ Goto("c1", "twice")
    /\ UNCHANGED redactRest

NextRedact ==
    \/ RedactHeadersCall
    \/ RedactHeadersAgain
    \/ RedactBodyCall
    \/ RedactBodyAgain

RedactSpec == InitRedact /\ [][NextRedact]_vars

\* ------------------------------------------- site names, character by character
\* SanitizeSiteName and ExtractSite on the code points of their argument
\* (the tab monitor above uses them on whole host names).
UnknownSiteText == <<117, 110, 107, 110, 111, 119, 110>>

\* "localhost", "127.0.0.1", "0.0.0.0"
LocalHosts == {<<108, 111, 99, 97, 108, 104, 111, 115, 116>>,
               <<49, 50, 55, 46, 48, 46, 48, 46, 49>>,
               <<48, 46, 48, 46, 48, 46, 48>>}

\* the characters the strings.NewReplacer of SanitizeSiteName replaces:
\* / \ : * ? " < > | and the space
ReplacedChars == {47, 92, 58, 42, 63, 34, 60, 62, 124, 32}

\* strings.Index and strings.LastIndex of one character, 0 when it is missing
IndexOf(str, c) ==
    IF \E i \in DOMAIN str : str[i] = c
    THEN CHOOSE i \in DOMAIN str : str[i] = c /\ \A j \in 1..(i - 1) : str[j] # c
    ELSE 0

LastIndexOf(str, c) ==
    IF \E i \in DOMAIN str : str[i] = c
    THEN CHOOSE i \in DOMAIN str : str[i] = c /\ \A j \in (i + 1)..Len(str) : str[j] # c
    ELSE 0

From(str, i) == SubSeq(str, i, Len(str))

SanitizeSiteNameText(hostname) ==
    IF hostname = <<>> THEN UnknownSiteText
    ELSE LET colon == IndexOf(hostname, 58)
             host == SubSeq(hostname, 1, colon - 1)
             port == From(hostname, colon + 1)
             name == IF colon = 0 THEN hostname
                     ELSE IF host \in LocalHosts THEN host \o <<95>> \o port
                     ELSE host
             result == [i \in DOMAIN name |-> IF name[i] \in ReplacedChars THEN 95 ELSE name[i]]
         IN  IF Len(result) > 255 THEN SubSeq(result, 1, 255) ELSE result

IsLetter(c) == (65 <= c /\ c <= 90) \/ (97 <= c /\ c <= 122)

IsDigit(c) == 48 <= c /\ c <= 57

\* net/url getScheme: [ok, scheme, rest]
getScheme(rawURL) ==
    LET stops == {i \in DOMAIN rawURL :
                     ~IsLetter(rawURL[i]) /\ ~(i > 1 /\ (IsDigit(rawURL[i]) \/ rawURL[i] \in {43, 45, 46}))}
        i == CHOOSE k \in stops : \A j \in stops : k <= j
    IN  IF stops = {} \/ rawURL[i] # 58 THEN [ok |-> TRUE, scheme |-> <<>>, rest |-> rawURL]
        ELSE IF i = 1 THEN [ok |-> FALSE]
        ELSE [ok |-> TRUE, scheme |-> SubSeq(rawURL, 1, i - 1), rest |-> From(rawURL, i + 1)]

\* net/url validOptionalPort
validOptionalPort(port) ==
    port = <<>> \/ (port[1] = 58 /\ \A i \in 2..Len(port) : IsDigit(port[i]))

\* net/url shouldEscape(c, encodeHost): a character a host cannot hold
shouldEscapeHost(c) ==
    ~(IsLetter(c) \/ IsDigit(c)
      \/ c \in {33, 36, 38, 39, 40, 41, 42, 43, 44, 59, 61, 58, 91, 93, 60, 62, 34}
      \/ c \in {45, 95, 46, 126})

\* net/url parseHost, on a host without escapes and zone
validHost(host) ==
    /\ IF host # <<>> /\ host[1] = 91
       THEN LastIndexOf(host, 93) # 0 /\ validOptionalPort(From(host, LastIndexOf(host, 93) + 1))
       ELSE LastIndexOf(host, 58) = 0 \/ validOptionalPort(From(host, LastIndexOf(host, 58)))
    /\ \A i \in DOMAIN host : ~shouldEscapeHost(host[i])

\* url.Parse of a text without query, fragment, user and escapes
urlParse(rawURL) ==
    LET s == getScheme(rawURL) IN
    IF ~s.ok THEN [ok |-> FALSE]
    ELSE LET rest == s.rest
             slash == IndexOf(rest, 47)
             segment == IF slash = 0 THEN rest ELSE SubSeq(rest, 1, slash - 1)
         IN  IF rest = <<>> \/ rest[1] # 47
             THEN IF s.scheme # <<>>
                  THEN [ok |-> TRUE, Scheme |-> ToLower(s.scheme), Opaque |-> rest, Host |-> <<>>]
                  ELSE IF IndexOf(segment, 58) # 0 THEN [ok |-> FALSE]
                  ELSE [ok |-> TRUE, Scheme |-> <<>>, Opaque |-> <<>>, Host |-> <<>>]
             ELSE IF Len(rest) >= 2 /\ rest[2] = 47
                     /\ (s.scheme # <<>> \/ ~(Len(rest) >= 3 /\ rest[3] = 47))
             THEN LET after == From(rest, 3)
                      end == IndexOf(after, 47)
                      authority == IF end = 0 THEN after ELSE SubSeq(after, 1, end - 1)
                  IN  IF validHost(authority)
                      THEN [ok |-> TRUE, Scheme |-> ToLower(s.scheme), Opaque |-> <<>>, Host |-> authority]
                      ELSE [ok |-> FALSE]
             ELSE [ok |-> TRUE, Scheme |-> ToLower(s.scheme), Opaque |-> <<>>, Host |-> <<>>]

\* net/url splitHostPort: <<host, port>>
splitHostPort(hostPort) ==
    LET colon == LastIndexOf(hostPort, 58)
        split == colon # 0 /\ validOptionalPort(From(hostPort, colon))
        host == IF split THEN SubSeq(hostPort, 1, colon - 1) ELSE hostPort
        port == IF split THEN From(hostPort, colon + 1) ELSE <<>>
    IN  IF host # <<>> /\ host[1] = 91 /\ host[Len(host)] = 93
        THEN <<SubSeq(host, 2, Len(host) - 1), port>>
        ELSE <<host, port>>

ExtractSiteText(urlStr) ==
    IF urlStr = <<>> THEN UnknownSiteText
    ELSE LET u == urlParse(urlStr) IN
         IF ~u.ok THEN UnknownSiteText
         ELSE LET hostname == splitHostPort(u.Host)[1]
                  port == splitHostPort(u.Host)[2]
              IN  IF hostname = <<>>
                  THEN IF u.Scheme # <<>>
                       THEN SanitizeSiteNameText(u.Scheme \o <<95>> \o u.Opaque)
                       ELSE UnknownSiteText
                  ELSE IF port # <<>> /\ hostname \in LocalHosts
                  THEN SanitizeSiteNameText(hostname \o <<58>> \o port)
                  ELSE SanitizeSiteNameText(hostname)

\* a, the colon, the slash, 1, the brackets and the space
SiteChars == {97, 58, 47, 49, 91, 93, 32}

RECURSIVE Texts(_)
Texts(n) ==
    IF n = 0 THEN {<<>>}
    ELSE LET shorter == Texts(n - 1) IN
         shorter \cup {Append(t, c) : t \in {x \in shorter : Len(x) = n - 1}, c \in SiteChars}

\* localhost:8080, 127.0.0.1:3000, a.com:80, a name of 300 letters,
\* http://localhost:8080/, http://[::1]:8080/x, https://a.com/x, about:blank,
\* chrome://newtab/, http://a b/
SampleTexts ==
    {<<108, 111, 99, 97, 108, 104, 111, 115, 116, 58, 56, 48, 56, 48>>,
     <<49, 50, 55, 46, 48, 46, 48, 46, 49, 58, 51, 48, 48, 48>>,
     <<97, 46, 99, 111, 109, 58, 56, 48>>,
     [i \in 1..300 |-> 97],
     <<104, 116, 116, 112, 58, 47, 47, 108, 111, 99, 97, 108, 104, 111, 115, 116, 58, 56, 48, 56, 48, 47>>,
     <<104, 116, 116, 112, 58, 47, 47, 91, 58, 58, 49, 93, 58, 56, 48, 56, 48, 47, 120>>,
     <<104, 116, 116, 112, 115, 58, 47, 47, 97, 46, 99, 111, 109, 47, 120>>,
     <<97, 98, 111, 117, 116, 58, 98, 108, 97, 110, 107>>,
     <<99, 104, 114, 111, 109, 101, 58, 47, 47, 110, 101, 119, 116, 97, 98, 47>>,
     <<104, 116, 116, 112, 58, 47, 47, 97, 32, 98, 47>>}

SiteTexts == Texts(MaxChars) \cup SampleTexts

\* the goroutine c1 holds one text, applies one of the two functions to it
\* and sanitizes the result
InitSite ==
    /\ fm = InitFM
    /\ ioBudget = 0
    /\ pc = [t \in Threads |-> "idle"]
    /\ ltw = [t \in Threads |-> NoWriter]
    /\ \E op \in {"SanitizeSiteName", "ExtractSite"}, text \in SiteTexts :
          lev = [t \in Threads |->
                   IF t = "c1" THEN [op |-> op, input |-> text, once |-> <<>>, twice |-> <<>>]
                   ELSE NoEvent]
    /\ lset = [t \in Threads |-> {}]
    /\ acked = {}
    /\ nops = 0
    /\ InitTabVars
    /\ InitRegVars
    /\ InitMgrVars

SanitizeSiteNameCall ==
    /\ pc["c1"] = "idle"
    /\ lev["c1"].op = "SanitizeSiteName"
    /\ lev' = [lev EXCEPT !["c1"].once = SanitizeSiteNameText(lev["c1"].input)]
    /\ Goto("c1", "once")
    /\ UNCHANGED redactRest

ExtractSiteCall ==
    /\ pc["c1"] = "idle"
    /\ lev["c1"].op = "ExtractSite"
    /\ lev' = [lev EXCEPT !["c1"].once = ExtractSiteText(lev["c1"].input)]
    /\ Goto("c1", "once")
    /\ UNCHANGED redactRest

\* the site goes through SanitizeSiteName (again)
SanitizeResult ==
    /\ pc["c1"] = "once"
    /\ lev' = [lev EXCEPT !["c1"].twice = SanitizeSiteNameText(lev["c1"].once)]
    /\ Goto("c1", "twice")
    /\ UNCHANGED redactRest

NextSite ==
    \/ SanitizeSiteNameCall
    \/ ExtractSiteCall
    \/ SanitizeResult

SiteSpec == InitSite /\ [][NextSite]_vars

\* ------------- the store, mutex by mutex, every goroutine on one key
\* fm.WriteEvent(tabID, event) is called, by every goroutine for the same
\* file, which another goroutine may be opening at the same time
WriteEventCallSame(t) ==
    /\ t \in Clients
    /\ pc[t] = "idle"
    /\ nops < MaxOps
    /\ \E k \in {LockKeyOf["c1"]}, kind \in LockRecords :
          lev' = [lev EXCEPT ![t] = NewLogEvent(k[2], k[1], kind[1], 0, kind[2])]
    /\ nops' = nops + 1
    /\ Goto(t, "gw_rlock")
    /\ UNCHANGED <<storeVars, lset, tabVars>>
    /\ UNCHANGED extVars

NextSameKey ==
    \/ \E t \in LockThreads : WriteEventCallSame(t)
    \/ \E t \in LockThreads : GetWriterRLock(t)
    \/ \E t \in LockThreads : GetWriterRead(t)
    \/ \E t \in LockThreads : MapLockCall(t)
    \/ \E t \in LockThreads : MapLockAcquire(t)
    \/ \E t \in LockThreads : GetWriterCreate(t)
    \/ \E t \in LockThreads : TwLock(t)
    \/ \E t \in LockThreads : WriteEventReturn(t)
    \/ \E t \in LockThreads : CloseTabCall(t)
    \/ \E t \in LockThreads : CloseTabDelete(t)
    \/ \E t \in LockThreads : CloseTabReturn(t)
    \/ \E i \in 1..MaxTimers : TimerFire(i)
    \/ \E i \in 1..MaxTimers : TimerRunLocked(i)

SameKeySpec == Init /\ [][NextSameKey]_vars

\* ------------- the manager's three teardown paths, monitor by monitor
\* a slot of mons no monitor was created in; a monitor keeps its slot for ever
NoTabMonitor == [target |-> NoTarget, conn |-> 0, stops |-> 0]

UnusedMonitors == {s \in 1..MaxMonitors : mons[s] = NoTabMonitor}

\* the browser context connect number k created is done
ConnDone(k) == ctxDone \/ k < mg.nconn \/ (k = mg.nconn /\ mg.browserCtx = "done")

\* mon.Stop() of monitor s: one more meta.tab_closed
TdMonStop(s) == [mons EXCEPT ![s].stops = @ + 1]

\* handleNewTarget under m.mu; the monitor is created under connection mg.nconn
TdHandleNewTarget(x) ==
    IF exists(mg, x)
    THEN UNCHANGED <<mg, mons, reg, tabCounter>>
    ELSE /\ UnusedMonitors # {}
         /\ IF reg.targetToTab[x] # NoTab
            THEN UNCHANGED <<reg, tabCounter>>
            ELSE /\ tabCounter' = tabCounter + 1
                 /\ reg' = [reg EXCEPT !.targetToTab[x] = GenerateTabID(tabCounter + 1)]
         /\ mons' = [mons EXCEPT ![Min(UnusedMonitors)] =
                                     [target |-> x, conn |-> mg.nconn, stops |-> 0]]
         /\ mg' = [mg EXCEPT !.tabMonitors[x] = Min(UnusedMonitors)]

\* Start: the loop calls connect, which discovers the tabs, creates the
\* contexts, registers the listener and starts the cleanup goroutine
TdConnect ==
    /\ mst.pc = "loop"
    /\ IF ctxDone
       THEN /\ mst' = [mst EXCEPT !.pc = "returned"]
            /\ UNCHANGED <<chrome, mg, bg, mq>>
       ELSE /\ mg.nconn < MaxConnects
            /\ LET a == AnchorOf[mg.nconn + 1] IN
               /\ chrome' = [chrome EXCEPT !.pages = @ \cup {a}, !.used = @ \cup {a}]
               /\ mg' = [mg EXCEPT !.browserCtx = "live", !.internalTargetID = a,
                                   !.nconn = @ + 1]
            /\ mst' = [mst EXCEPT !.pc = "enum", !.initialTabs = chrome.pages]
            /\ bg' = [bg EXCEPT !.cleanup[mg.nconn + 1] = [pc |-> "waiting", set |-> {}]]
            /\ mq' = <<>>
    /\ UNCHANGED <<mons, mlog, ctxDone, nev>>
    /\ UNCHANGED <<coreVars, regVars>>

\* connect: one turn of the loop over initialTabs
TdEnumerate ==
    /\ mst.pc = "enum"
    /\ mst.initialTabs # {}
    /\ \E x \in mst.initialTabs :
          /\ mst' = [mst EXCEPT !.initialTabs = @ \ {x}]
          /\ IF x # mg.internalTargetID
             THEN TdHandleNewTarget(x)
             ELSE UNCHANGED <<mg, mons, reg, tabCounter>>
    /\ UNCHANGED <<chrome, bg, mq, mlog, ctxDone, nev>>
    /\ UNCHANGED <<coreVars, rpc, rhist>>

\* connect returns nil: Start sets m.connected
TdConnectReturn ==
    /\ mst.pc = "enum"
    /\ mst.initialTabs = {}
    /\ mst' = [mst EXCEPT !.pc = "connected"]
    /\ mg' = [mg EXCEPT !.connected = TRUE]
    /\ UNCHANGED <<chrome, mons, bg, mq, mlog, ctxDone, nev>>
    /\ UNCHANGED <<coreVars, regVars>>

\* Start, the select that waits for the disconnection
TdStartWait ==
    /\ mst.pc = "connected"
    /\ \/ /\ ctxDone
          /\ mst' = [mst EXCEPT !.pc = "returned"]
          /\ UNCHANGED mg
       \/ /\ mg.browserCtx = "done"
          /\ mst' = [mst EXCEPT !.pc = "backoff"]
          /\ mg' = [mg EXCEPT !.connected = FALSE]
    /\ UNCHANGED <<chrome, mons, bg, mq, mlog, ctxDone, nev>>
    /\ UNCHANGED <<coreVars, regVars>>

\* Start, the select that waits retryWait before the next connect; no lock
\* and no channel ties its end to the cleanup goroutine of the lost connection
TdBackoff ==
    /\ mst.pc = "backoff"
    /\ mst' = [mst EXCEPT !.pc = IF ctxDone THEN "returned" ELSE "loop"]
    /\ UNCHANGED <<chrome, mg, mons, bg, mq, mlog, ctxDone, nev>>
    /\ UNCHANGED <<coreVars, regVars>>

TdListenerReady(kind) ==
    /\ bg.listener.pc = "idle"
    /\ mg.browserCtx = "live"
    /\ mq # <<>>
    /\ Head(mq)[1] = kind

\* the listener, case *target.EventTargetCreated
TdListenerCreated ==
    /\ TdListenerReady("created")
    /\ mq' = Tail(mq)
    /\ IF Head(mq)[2] # mg.internalTargetID
       THEN TdHandleNewTarget(Head(mq)[2])
       ELSE UNCHANGED <<mg, mons, reg, tabCounter>>
    /\ UNCHANGED <<chrome, mst, bg, mlog, ctxDone, nev>>
    /\ UNCHANGED <<coreVars, rpc, rhist>>

\* a handleTargetDestroyed that leaves the monitor in the map
TdHandleTargetDestroyedKeeps ==
    /\ TdListenerReady("destroyed")
    /\ mq' = Tail(mq)
    /\ LET x == Head(mq)[2] IN
       IF x # mg.internalTargetID /\ exists(mg, x)
       THEN /\ mg' = mg
            /\ bg' = [bg EXCEPT !.listener = [pc |-> "stop", mon |-> mg.tabMonitors[x]]]
       ELSE UNCHANGED <<mg, bg>>
    /\ UNCHANGED <<chrome, mons, mst, mlog, ctxDone, nev>>
    /\ UNCHANGED <<coreVars, regVars>>

\* the listener, case *target.EventTargetDestroyed: handleTargetDestroyed up
\* to m.mu.Unlock
TdHandleTargetDestroyed ==
    /\ TdListenerReady("destroyed")
    /\ mq' = Tail(mq)
    /\ LET x == Head(mq)[2] IN
       IF x # mg.internalTargetID /\ exists(mg, x)
       THEN /\ mg' = [mg EXCEPT !.tabMonitors[x] = NoMon]
            /\ bg' = [bg EXCEPT !.listener = [pc |-> "stop", mon |-> mg.tabMonitors[x]]]
       ELSE UNCHANGED <<mg, bg>>
    /\ UNCHANGED <<chrome, mons, mst, mlog, ctxDone, nev>>
    /\ UNCHANGED <<coreVars, regVars>>

\* handleTargetDestroyed: mon.Stop(), outside m.mu
TdDestroyedStop ==
    /\ bg.listener.pc = "stop"
    /\ mons' = TdMonStop(bg.listener.mon)
    /\ bg' = [bg EXCEPT !.listener = [pc |-> "idle", mon |-> NoMon]]
    /\ UNCHANGED <<chrome, mg, mst, mq, mlog, ctxDone, nev>>
    /\ UNCHANGED <<coreVars, regVars>>

\* the cleanup goroutine of connection k: <-m.browserCtx.Done(), then
\* clearTabMonitors under m.mu collects what the map holds and replaces the
\* map; mlog keeps which goroutine took which monitor out of the map
TdClearTabMonitors(k) ==
    /\ bg.cleanup[k].pc = "waiting"
    /\ ConnDone(k)
    /\ LET set == {mg.tabMonitors[x] : x \in Monitored(mg)} IN
       /\ bg' = [bg EXCEPT !.cleanup[k] = [pc |-> "stopping", set |-> set]]
       /\ mlog' = mlog \cup {<<k, s>> : s \in set}
    /\ mg' = [mg EXCEPT !.tabMonitors = [x \in PageTargets |-> NoMon]]
    /\ UNCHANGED <<chrome, mons, mst, mq, ctxDone, nev>>
    /\ UNCHANGED <<coreVars, regVars>>

\* clearTabMonitors: one turn of the loop that stops the collected monitors
TdClearStop(k) ==
    /\ bg.cleanup[k].pc = "stopping"
    /\ IF bg.cleanup[k].set = {}
       THEN /\ bg' = [bg EXCEPT !.cleanup[k].pc = "over"]
            /\ UNCHANGED mons
       ELSE \E s \in bg.cleanup[k].set :
               /\ mons' = TdMonStop(s)
               /\ bg' = [bg EXCEPT !.cleanup[k].set = @ \ {s}]
    /\ UNCHANGED <<chrome, mg, mst, mq, mlog, ctxDone, nev>>
    /\ UNCHANGED <<coreVars, regVars>>

\* main: the signal cancels the context of Manager.Start
TdSignal ==
    /\ ~ctxDone
    /\ ctxDone' = TRUE
    /\ mg' = CtxDone(mg)
    /\ mq' = <<>>
    /\ UNCHANGED <<chrome, mons, mst, bg, mlog, nev>>
    /\ UNCHANGED <<coreVars, regVars>>

\* main: Manager.Stop cancels the contexts and, under m.mu, collects the
\* monitors and replaces the map
TdManagerStop ==
    /\ ctxDone
    /\ bg.stop.pc = "none"
    /\ bg' = [bg EXCEPT !.stop = [pc |-> "stopping",
                                  set |-> {mg.tabMonitors[x] : x \in Monitored(mg)}]]
    /\ mg' = [mg EXCEPT !.tabMonitors = [x \in PageTargets |-> NoMon]]
    /\ UNCHANGED <<chrome, mons, mst, mq, mlog, ctxDone, nev>>
    /\ UNCHANGED <<coreVars, regVars>>

\* Manager.Stop: one turn of the loop that stops the collected monitors
TdManagerStopLoop ==
    /\ bg.stop.pc = "stopping"
    /\ IF bg.stop.set = {}
       THEN /\ bg' = [bg EXCEPT !.stop.pc = "over"]
            /\ UNCHANGED mons
       ELSE \E s \in bg.stop.set :
               /\ mons' = TdMonStop(s)
               /\ bg' = [bg EXCEPT !.stop.set = @ \ {s}]
    /\ UNCHANGED <<chrome, mg, mst, mq, mlog, ctxDone, nev>>
    /\ UNCHANGED <<coreVars, regVars>>

\* target events reach the listener of the live connection
TdEmit(kind, x) == IF mg.browserCtx = "live" THEN Append(mq, <<kind, x>>) ELSE mq

TdOpenPage ==
    /\ nev < MaxChromeEvents
    /\ \E x \in UserPages \ chrome.pages :
          /\ chrome' = [chrome EXCEPT !.pages = @ \cup {x}, !.used = @ \cup {x}]
          /\ mq' = TdEmit("created", x)
    /\ nev' = nev + 1
    /\ UNCHANGED <<mg, mons, mst, bg, mlog, ctxDone>>
    /\ UNCHANGED <<coreVars, regVars>>

TdClosePage ==
    /\ nev < MaxChromeEvents
    /\ \E x \in chrome.pages :
          /\ ~(mg.browserCtx = "live" /\ x = mg.internalTargetID)
          /\ chrome' = [chrome EXCEPT !.pages = @ \ {x}]
          /\ mq' = TdEmit("destroyed", x)
    /\ nev' = nev + 1
    /\ UNCHANGED <<mg, mons, mst, bg, mlog, ctxDone>>
    /\ UNCHANGED <<coreVars, regVars>>

\* the websocket of the live connection is lost; Chrome runs on
TdDisconnect ==
    /\ nev < MaxChromeEvents
    /\ mg.browserCtx = "live"
    /\ mg' = CtxDone(mg)
    /\ mq' = <<>>
    /\ nev' = nev + 1
    /\ UNCHANGED <<chrome, mons, mst, bg, mlog, ctxDone>>
    /\ UNCHANGED <<coreVars, regVars>>

InitTeardown ==
    /\ fm = InitFM
    /\ ioBudget = 0
    /\ pc = [t \in Threads |-> "idle"]
    /\ ltw = [t \in Threads |-> NoWriter]
    /\ lev = [t \in Threads |-> NoEvent]
    /\ lset = [t \in Threads |-> {}]
    /\ acked = {}
    /\ nops = 0
    /\ InitTabVars
    /\ InitRegVars
    /\ chrome \in {[up |-> TRUE, pages |-> {}, used |-> {}],
                   [up |-> TRUE, pages |-> UserPages, used |-> UserPages]}
    /\ mg = NewManager
    /\ mons = [s \in 1..MaxMonitors |-> NoTabMonitor]
    /\ mst = [pc |-> "loop", initialTabs |-> {}]
    /\ bg = [listener |-> [pc |-> "idle", mon |-> NoMon],
             cleanup |-> [k \in 1..MaxConnects |-> [pc |-> "none", set |-> {}]],
             stop |-> [pc |-> "none", set |-> {}]]
    /\ mq = <<>>
    /\ mlog = {}
    /\ ctxDone = FALSE
    /\ nev = 0

NextTeardown ==
    \/ TdConnect
    \/ TdEnumerate
    \/ TdConnectReturn
    \/ TdStartWait
    \/ TdBackoff
    \/ TdListenerCreated
    \/ TdHandleTargetDestroyed
    \/ TdDestroyedStop
    \/ \E k \in 1..MaxConnects : TdClearTabMonitors(k)
    \/ \E k \in 1..MaxConnects : TdClearStop(k)
    \/ TdSignal
    \/ TdManagerStop
    \/ TdManagerStopLoop
    \/ TdOpenPage
    \/ TdClosePage
    \/ TdDisconnect

TeardownSpec == InitTeardown /\ [][NextTeardown]_vars

\* ------------- every mutex of the program, lock operation by lock operation
\* A goroutine is the sequence of operations it has yet to run (lev), the
\* mutexes it holds (lset) and whether it waits inside Lock() (pc = "wait").
MaxCalls == 3   \* handler calls and timer firings of a run

MMu == <<"m.mu", 0>>                \* Manager.mu
RegMu == <<"r.mu", 0>>              \* TabRegistry.mu
TmMu == <<"tm.mu", 0>>              \* TabMonitor.mu
TrackerMu == <<"tm.trackerMu", 0>>  \* TabMonitor.trackerMu
FmMu == <<"fm.mu", 0>>              \* FileManager.mu
TwMu(w) == <<"tw.mu", w>>           \* tabWriter.mu of the w-th writer created

EventKinds == {"frameNavigated", "loadEventFired", "responseReceived",
               "loadingFinished", "consoleAPICalled"}

\* WriteEvent: getWriter's fast path begins
WriteEventOps(site, meta) == <<<<"RLock", FmMu>>, <<"gwRead", site, meta>>>>

\* WriteEvent from tw.mu.Lock() to the deferred Unlock
WriteLockedOps(w, meta) == <<<<"Lock", TwMu(w)>>, <<"write", w, meta>>, <<"Unlock", TwMu(w)>>>>

\* the closing section of CloseTab and of one turn of Close's loop
CloseLockedOps(w) == <<<<"Lock", TwMu(w)>>, <<"close", w>>, <<"Unlock", TwMu(w)>>>>

CloseTabOps(site) == <<<<"Lock", FmMu>>, <<"ctRemove", site>>>>

CloseOps == <<<<"Lock", FmMu>>, <<"closeAll">>>>

\* the callback of time.AfterFunc
FlushCallbackOps(w) == <<<<"Lock", TwMu(w)>>, <<"flush", w>>, <<"Unlock", TwMu(w)>>>>

\* a handleEvent that keeps the read lock of its snapshot
HandleEventOpsKeeps(kind) == <<<<"RLock", TmMu>>, <<"snapshotKeeps", kind>>>>

\* handleEvent: the snapshot under tm.mu.RLock()
HandleEventOps(kind) == <<<<"RLock", TmMu>>, <<"snapshot", kind>>>>

StopOps == <<<<"RLock", TmMu>>, <<"snapshot", "stop">>>>

HandleSiteChangeOps(newSite) == <<<<"Lock", TmMu>>, <<"hscCheck", newSite>>>>

StartOps == <<<<"startWrite">>>>

handleNewTargetOps == <<<<"Lock", MMu>>, <<"hntCheck">>>>

GetOrCreateTabIDOps == <<<<"RLock", RegMu>>, <<"regRead">>>>

handleTargetDestroyedOps == <<<<"Lock", MMu>>, <<"htdCheck">>>>

handleTargetInfoChangedOps(newSite) == <<<<"RLock", MMu>>, <<"hicCheck", newSite>>>>

clearTabMonitorsOps == <<<<"Lock", MMu>>, <<"collect">>>>

\* Manager.Stop: the monitors, then fileManager.Close()
ManagerStopOps == clearTabMonitorsOps \o CloseOps

\* the orders a range over a Go map may take
Orders(S) == {s \in [1..Cardinality(S) -> S] : \A i, j \in 1..Cardinality(S) : s[i] = s[j] => i = j}

RECURSIVE CloseLoopOps(_)
CloseLoopOps(ws) == IF ws = <<>> THEN <<>> ELSE CloseLockedOps(Head(ws)) \o CloseLoopOps(Tail(ws))

HeadOp(t) == Head(lev[t])

At(t, kinds) == lev[t] # <<>> /\ HeadOp(t)[1] \in kinds

HoldersOf(L) == {h \in Threads : <<L, "r">> \in lset[h] \/ <<L, "w">> \in lset[h]}

WriteHolders(L) == {h \in Threads : <<L, "w">> \in lset[h]}

\* the goroutines inside L.Lock(): a sync.RWMutex keeps new readers out
\* while one of them waits
PendingOn(L) == {h \in Threads : pc[h] = "wait" /\ HeadOp(h) = <<"Lock", L>>}

\* the goroutine goes on with ops in front of what it had left
Continue(t, ops) ==
    /\ lev' = [lev EXCEPT ![t] = ops \o Tail(lev[t])]
    /\ pc' = [pc EXCEPT ![t] = IF ops \o Tail(lev[t]) = <<>> THEN "idle" ELSE "run"]

Spawn(t, ops, g, gops) ==
    /\ lev' = [lev EXCEPT ![t] = ops \o Tail(lev[t]), ![g] = gops]
    /\ pc' = [pc EXCEPT ![t] = IF ops \o Tail(lev[t]) = <<>> THEN "idle" ELSE "run", ![g] = "run"]

dlRest == <<ioBudget, ltw, acked, tmMu, listening, br, qMgr, qTab, rpc, rhist, mgrVars>>

\* L.RLock()
DlRLock(t) ==
    /\ At(t, {"RLock"})
    /\ WriteHolders(HeadOp(t)[2]) = {} /\ PendingOn(HeadOp(t)[2]) = {}
    /\ lset' = [lset EXCEPT ![t] = @ \cup {<<HeadOp(t)[2], "r">>}]
    /\ Continue(t, <<>>)
    /\ UNCHANGED <<fm, tm, m, reg, tabCounter, nops, dlRest>>

\* L.Lock() is called
DlLockCall(t) ==
    /\ At(t, {"Lock"})
    /\ pc[t] = "run"
    /\ pc' = [pc EXCEPT ![t] = "wait"]
    /\ UNCHANGED <<lev, lset, fm, tm, m, reg, tabCounter, nops, dlRest>>

\* L.Lock() returns
DlLockAcquire(t) ==
    /\ At(t, {"Lock"})
    /\ pc[t] = "wait"
    /\ HoldersOf(HeadOp(t)[2]) = {}
    /\ lset' = [lset EXCEPT ![t] = @ \cup {<<HeadOp(t)[2], "w">>}]
    /\ Continue(t, <<>>)
    /\ UNCHANGED <<fm, tm, m, reg, tabCounter, nops, dlRest>>

\* L.Unlock() and L.RUnlock()
DlUnlock(t) ==
    /\ At(t, {"Unlock", "RUnlock"})
    /\ lset' = [lset EXCEPT ![t] = @ \ {<<HeadOp(t)[2], IF HeadOp(t)[1] = "Unlock" THEN "w" ELSE "r">>}]
    /\ Continue(t, <<>>)
    /\ UNCHANGED <<fm, tm, m, reg, tabCounter, nops, dlRest>>

\* getWriter: the lookup under the read lock, then the second lookup and
\* the creation under the write lock
DlGetWriter(t) ==
    /\ At(t, {"gwRead", "gwCreate"})
    /\ LET op == HeadOp(t)
           w == fm.files[op[2]]
       IN IF op[1] = "gwRead"
          THEN /\ <<FmMu, "r">> \in lset[t]
               /\ fm' = fm
               /\ Continue(t, IF w # NoWriter
                              THEN <<<<"RUnlock", FmMu>>>> \o WriteLockedOps(w, op[3])
                              ELSE <<<<"RUnlock", FmMu>>, <<"Lock", FmMu>>,
                                     <<"gwCreate", op[2], op[3]>>>>)
          ELSE /\ <<FmMu, "w">> \in lset[t]
               /\ fm' = IF w # NoWriter THEN fm
                        ELSE [fm EXCEPT !.files[op[2]] = fm.nw + 1, !.nw = @ + 1]
               /\ Continue(t, <<<<"Unlock", FmMu>>>>
                              \o WriteLockedOps(IF w # NoWriter THEN w ELSE fm.nw + 1, op[3]))
    /\ UNCHANGED <<lset, tm, m, reg, tabCounter, nops, dlRest>>

\* WriteEvent under tw.mu: the write and handleFlush, which flushes a meta
\* record and cancels the timer, or arms the timer
DlWrite(t) ==
    /\ At(t, {"write"})
    /\ <<TwMu(HeadOp(t)[2]), "w">> \in lset[t]
    /\ fm' = [fm EXCEPT !.armed = IF HeadOp(t)[3] THEN @ \ {HeadOp(t)[2]}
                                  ELSE @ \cup {HeadOp(t)[2]}]
    /\ Continue(t, <<>>)
    /\ UNCHANGED <<lset, tm, m, reg, tabCounter, nops, dlRest>>

\* CloseTab under fm.mu: the lookup and the delete
DlCloseTabRemove(t) ==
    /\ At(t, {"ctRemove"})
    /\ <<FmMu, "w">> \in lset[t]
    /\ LET w == fm.files[HeadOp(t)[2]] IN
       IF w = NoWriter
       THEN fm' = fm /\ Continue(t, <<<<"Unlock", FmMu>>>>)
       ELSE /\ fm' = [fm EXCEPT !.files[HeadOp(t)[2]] = NoWriter]
            /\ Continue(t, <<<<"Unlock", FmMu>>>> \o CloseLockedOps(w))
    /\ UNCHANGED <<lset, tm, m, reg, tabCounter, nops, dlRest>>

\* Close under fm.mu: the writers are collected and the map replaced
DlCloseAll(t) ==
    /\ At(t, {"closeAll"})
    /\ <<FmMu, "w">> \in lset[t]
    /\ fm' = [fm EXCEPT !.files = [s \in Sites |-> NoWriter]]
    /\ \E ws \in Orders({fm.files[s] : s \in {s \in Sites : fm.files[s] # NoWriter}}) :
          Continue(t, <<<<"Unlock", FmMu>>>> \o CloseLoopOps(ws))
    /\ UNCHANGED <<lset, tm, m, reg, tabCounter, nops, dlRest>>

\* under tw.mu: cancelFlushTimer, Flush, Sync, Close of the file; and the
\* body of the timer callback
DlCloseOrFlush(t) ==
    /\ At(t, {"close", "flush"})
    /\ <<TwMu(HeadOp(t)[2]), "w">> \in lset[t]
    /\ fm' = IF HeadOp(t)[1] = "close" THEN [fm EXCEPT !.armed = @ \ {HeadOp(t)[2]}] ELSE fm
    /\ Continue(t, <<>>)
    /\ UNCHANGED <<lset, tm, m, reg, tabCounter, nops, dlRest>>

\* handleEvent and Stop after the snapshot: what follows for each event
AfterSnapshot(kind, site) ==
    CASE kind = "frameNavigated" ->
            <<<<"Lock", TmMu>>, <<"url">>, <<"Unlock", TmMu>>>> \o WriteEventOps(site, FALSE)
      [] kind = "loadEventFired" ->
            <<<<"RLock", TmMu>>, <<"url">>, <<"RUnlock", TmMu>>>> \o WriteEventOps(site, FALSE)
      [] kind = "responseReceived" ->
            WriteEventOps(site, FALSE)
            \o <<<<"Lock", TrackerMu>>, <<"track">>, <<"Unlock", TrackerMu>>>>
      [] kind = "loadingFinished" ->
            <<<<"Lock", TrackerMu>>, <<"untrack", site>>>>
      [] kind = "consoleAPICalled" -> WriteEventOps(site, FALSE)
      [] kind = "stop" ->
            WriteEventOps(site, TRUE) \o CloseTabOps(site) \o <<<<"cancel">>>>

DlSnapshot(t) ==
    /\ At(t, {"snapshot", "snapshotKeeps"})
    /\ <<TmMu, "r">> \in lset[t]
    /\ Continue(t, (IF HeadOp(t)[1] = "snapshot" THEN <<<<"RUnlock", TmMu>>>> ELSE <<>>)
                   \o AfterSnapshot(HeadOp(t)[2], tm.currentSite))
    /\ UNCHANGED <<lset, fm, tm, m, reg, tabCounter, nops, dlRest>>

\* handleEvent's accesses to tm.currentURL and to the request tracker, and
\* the go statement for captureBody
DlHandleEvent(t) ==
    /\ At(t, {"url", "track", "untrack"})
    /\ LET op == HeadOp(t) IN
       CASE op[1] = "url" ->
               /\ HoldersOf(TmMu) \cap {t} # {}
               /\ tm' = tm
               /\ Continue(t, <<>>)
         [] op[1] = "track" ->
               /\ <<TrackerMu, "w">> \in lset[t]
               /\ tm' = [tm EXCEPT !.tracked = TRUE]
               /\ Continue(t, <<>>)
         [] op[1] = "untrack" ->
               /\ <<TrackerMu, "w">> \in lset[t]
               /\ tm' = [tm EXCEPT !.tracked = FALSE]
               /\ IF tm.tracked
                  THEN Spawn(t, <<<<"Unlock", TrackerMu>>>>, "body", WriteEventOps(op[2], FALSE))
                  ELSE Continue(t, <<<<"Unlock", TrackerMu>>>>)
    /\ UNCHANGED <<lset, fm, m, reg, tabCounter, nops, dlRest>>

\* HandleSiteChange under tm.mu: the comparison, and every call the changed
\* site leads to before the deferred Unlock
DlHandleSiteChange(t) ==
    /\ At(t, {"hscCheck", "setSite"})
    /\ <<TmMu, "w">> \in lset[t]
    /\ LET op == HeadOp(t) IN
       IF op[1] = "setSite"
       THEN tm' = [tm EXCEPT !.currentSite = op[2]] /\ Continue(t, <<>>)
       ELSE /\ tm' = tm
            /\ Continue(t, IF op[2] = tm.currentSite
                           THEN <<<<"Unlock", TmMu>>>>
                           ELSE WriteEventOps(tm.currentSite, TRUE)
                                \o CloseTabOps(tm.currentSite)
                                \o <<<<"setSite", op[2]>>>>
                                \o WriteEventOps(op[2], TRUE)
                                \o <<<<"Unlock", TmMu>>>>)
    /\ UNCHANGED <<lset, fm, m, reg, tabCounter, nops, dlRest>>

\* Start: meta.tab_created with the fields read outside any lock, then
\* ListenTarget; and Stop's tm.cancel()
DlStartStop(t) ==
    /\ At(t, {"startWrite", "listen", "cancel"})
    /\ LET op == HeadOp(t) IN
       CASE op[1] = "startWrite" ->
               tm' = tm /\ Continue(t, WriteEventOps(tm.currentSite, TRUE) \o <<<<"listen">>>>)
         [] op[1] = "listen" ->
               tm' = [tm EXCEPT !.listening = TRUE] /\ Continue(t, <<>>)
         [] op[1] = "cancel" ->
               tm' = [tm EXCEPT !.cancelled = TRUE] /\ Continue(t, <<>>)
    /\ UNCHANGED <<lset, fm, m, reg, tabCounter, nops, dlRest>>

\* handleNewTarget under m.mu: the lookup, GetOrCreateTabID, the new
\* monitor, the go statement for Start and the deferred Unlock
DlHandleNewTarget(t) ==
    /\ At(t, {"hntCheck", "register"})
    /\ <<MMu, "w">> \in lset[t]
    /\ IF HeadOp(t)[1] = "hntCheck"
       THEN /\ m' = m
            /\ Continue(t, IF m.tabMonitors THEN <<<<"Unlock", MMu>>>>
                           ELSE GetOrCreateTabIDOps \o <<<<"register">>, <<"Unlock", MMu>>>>)
       ELSE /\ m' = [m EXCEPT !.tabMonitors = TRUE, !.created = TRUE]
            /\ Spawn(t, <<>>, "start", StartOps)
    /\ UNCHANGED <<lset, fm, tm, reg, tabCounter, nops, dlRest>>

\* GetOrCreateTabID: the probe under the read lock, the creation under the
\* write lock
DlGetOrCreateTabID(t) ==
    /\ At(t, {"regRead", "regCreate"})
    /\ IF HeadOp(t)[1] = "regRead"
       THEN /\ <<RegMu, "r">> \in lset[t]
            /\ UNCHANGED <<reg, tabCounter>>
            /\ Continue(t, IF reg.targetToTab[TargetX] # NoTab
                           THEN <<<<"RUnlock", RegMu>>>>
                           ELSE <<<<"RUnlock", RegMu>>, <<"Lock", RegMu>>, <<"regCreate">>,
                                  <<"Unlock", RegMu>>>>)
       ELSE /\ <<RegMu, "w">> \in lset[t]
            /\ IF reg.targetToTab[TargetX] # NoTab
               THEN UNCHANGED <<reg, tabCounter>>
               ELSE /\ tabCounter' = tabCounter + 1
                    /\ reg' = [reg EXCEPT !.targetToTab[TargetX] = GenerateTabID(tabCounter + 1)]
            /\ Continue(t, <<>>)
    /\ UNCHANGED <<lset, fm, tm, m, nops, dlRest>>

\* handleTargetDestroyed, clearTabMonitors and Manager.Stop under m.mu: the
\* monitor leaves the map, mon.Stop() follows outside the lock
DlRemoveMonitor(t) ==
    /\ At(t, {"htdCheck", "collect"})
    /\ <<MMu, "w">> \in lset[t]
    /\ m' = [m EXCEPT !.tabMonitors = FALSE]
    /\ Continue(t, <<<<"Unlock", MMu>>>> \o (IF m.tabMonitors THEN StopOps ELSE <<>>))
    /\ UNCHANGED <<lset, fm, tm, reg, tabCounter, nops, dlRest>>

\* handleTargetInfoChanged: the lookup under m.mu.RLock(), HandleSiteChange
\* after the RUnlock
DlHandleTargetInfoChanged(t) ==
    /\ At(t, {"hicCheck"})
    /\ <<MMu, "r">> \in lset[t]
    /\ Continue(t, <<<<"RUnlock", MMu>>>>
                   \o (IF m.tabMonitors THEN HandleSiteChangeOps(HeadOp(t)[2]) ELSE <<>>))
    /\ UNCHANGED <<lset, fm, tm, m, reg, tabCounter, nops, dlRest>>

\* a goroutine that is idle is given a handler to run
Call(t, ops) ==
    /\ pc[t] = "idle"
    /\ nops < MaxCalls
    /\ nops' = nops + 1
    /\ lev' = [lev EXCEPT ![t] = ops]
    /\ pc' = [pc EXCEPT ![t] = "run"]

\* the ListenTarget callback of the manager; a target is created once
ListenerCall ==
    /\ \/ ~m.created /\ Call("listener", handleNewTargetOps)
       \/ Call("listener", handleTargetDestroyedOps)
       \/ \E s \in Sites : Call("listener", handleTargetInfoChangedOps(s))
    /\ UNCHANGED <<lset, fm, tm, m, reg, tabCounter, dlRest>>

\* the ListenTarget callback of the monitor, from ListenTarget up to the
\* cancellation; captureBody of the request before is over
DispatchCall ==
    /\ tm.listening /\ ~tm.cancelled
    /\ pc["body"] = "idle"
    /\ \E kind \in EventKinds : Call("dispatch", HandleEventOps(kind))
    /\ UNCHANGED <<lset, fm, tm, m, reg, tabCounter, dlRest>>

\* a flush timer that is armed fires: its callback starts
TimerCall ==
    /\ \E w \in fm.armed :
          /\ Call("c2", FlushCallbackOps(w))
          /\ fm' = [fm EXCEPT !.armed = @ \ {w}]
    /\ UNCHANGED <<lset, tm, m, reg, tabCounter, dlRest>>

\* the cleanup goroutine of connect
CleanupCall ==
    /\ Call("c1", clearTabMonitorsOps)
    /\ UNCHANGED <<lset, fm, tm, m, reg, tabCounter, dlRest>>

\* main calls Manager.Stop
ManagerStopCall ==
    /\ Call("main", ManagerStopOps)
    /\ UNCHANGED <<lset, fm, tm, m, reg, tabCounter, dlRest>>

InitMutex ==
    /\ fm = [files |-> [s \in Sites |-> NoWriter], nw |-> 0, armed |-> {}]
    /\ ioBudget = 0
    /\ pc = [t \in Threads |-> "idle"]
    /\ ltw = [t \in Threads |-> NoWriter]
    /\ lev = [t \in Threads |-> <<>>]
    /\ lset = [t \in Threads |-> {}]
    /\ acked = {}
    /\ nops = 0
    /\ m = [tabMonitors |-> FALSE, created |-> FALSE]
    /\ tm \in {[currentSite |-> s, tracked |-> FALSE, listening |-> FALSE, cancelled |-> FALSE] :
                  s \in Sites}
    /\ tmMu = ""
    /\ listening = FALSE
    /\ br = [state |-> "none", url |-> NoURL, nnav |-> 0, ntab |-> 0,
             net |-> [r \in RequestIDs |-> 0], nnet |-> 0]
    /\ qMgr = <<>>
    /\ qTab = <<>>
    /\ InitRegVars
    /\ InitMgrVars

NextMutex ==
    \/ \E t \in Threads : DlRLock(t)
    \/ \E t \in Threads : DlLockCall(t)
    \/ \E t \in Threads : DlLockAcquire(t)
    \/ \E t \in Threads : DlUnlock(t)
    \/ \E t \in Threads : DlGetWriter(t)
    \/ \E t \in Threads : DlWrite(t)
    \/ \E t \in Threads : DlCloseTabRemove(t)
    \/ \E t \in Threads : DlCloseAll(t)
    \/ \E t \in Threads : DlCloseOrFlush(t)
    \/ \E t \in Threads : DlSnapshot(t)
    \/ \E t \in Threads : DlHandleEvent(t)
    \/ \E t \in Threads : DlHandleSiteChange(t)
    \/ \E t \in Threads : DlStartStop(t)
    \/ \E t \in Threads : DlHandleNewTarget(t)
    \/ \E t \in Threads : DlGetOrCreateTabID(t)
    \/ \E t \in Threads : DlRemoveMonitor(t)
    \/ \E t \in Threads : DlHandleTargetInfoChanged(t)
    \/ ListenerCall
    \/ DispatchCall
    \/ TimerCall
    \/ CleanupCall
    \/ ManagerStopCall

MutexSpec == InitMutex /\ [][NextMutex]_vars

\* ---------------- one tab that navigates, on a disk that fails an I/O call
InitFault ==
    /\ fm = InitFM
    /\ ioBudget = MaxIOFail
    /\ pc = [t \in Threads |-> "idle"]
    /\ ltw = [t \in Threads |-> NoWriter]
    /\ lev = [t \in Threads |-> NoEvent]
    /\ lset = [t \in Threads |-> {}]
    /\ acked = {}
    /\ nops = 0
    /\ InitTabVars
    /\ InitRegVars
    /\ InitMgrVars

NextFault ==
    \/ BrowserOpenTab
    \/ BrowserNavigate
    \/ BrowserTabEvent
    \/ handleNewTarget
    \/ handleTargetInfoChanged
    \/ HandleSiteChangeSet
    \/ HandleSiteChangeUnlock
    \/ StartEnable
    \/ StartCreatedEvent
    \/ StartListen
    \/ handleFrameNavigated
    \/ FrameNavigatedSetURL
    \/ handleLoadEventFired
    \/ LoadEventReadURL
    \/ handleLoadingFinished
    \/ captureBodyFetch
    \/ \E t \in TabThreads : WriteEventEnter(t)
    \/ \E t \in TabThreads : WriteEventBody(t)
    \/ \E t \in TabThreads : CloseTabEnter(t)
    \/ \E t \in TabThreads : CloseTabBody(t)
    \/ \E i \in 1..MaxTimers : TimerFire(i)
    \/ \E i \in 1..MaxTimers : TimerRun(i)

FaultSpec == InitFault /\ [][NextFault]_vars

\* the goroutines run on while one of them can take a step
FaultFairSpec == FaultSpec /\ WF_vars(NextFault)

\* ------------------------------------------ the store, mutex by mutex
LockStep(t) ==
    \/ WriteEventCall(t)
    \/ GetWriterRLock(t)
    \/ GetWriterRead(t)
    \/ MapLockCall(t)
    \/ MapLockAcquire(t)
    \/ GetWriterCreate(t)
    \/ TwLock(t)
    \/ CloseTabCall(t)
    \/ CloseTabDelete(t)
    \/ CloseTabReturn(t)

NextLock ==
    \/ \E t \in LockThreads : LockStep(t)
    \/ \E t \in LockThreads : WriteEventReturn(t)
    \/ \E i \in 1..MaxTimers : TimerFire(i)
    \/ \E i \in 1..MaxTimers : TimerRunLocked(i)

LockSpec == Init /\ [][NextLock]_vars

\* every step but the return of c1's write
LockProgress ==
    \/ \E t \in LockThreads : LockStep(t)
    \/ \E t \in LockThreads \ {"c1"} : WriteEventReturn(t)
    \/ \E i \in 1..MaxTimers : TimerFire(i)
    \/ \E i \in 1..MaxTimers : TimerRunLocked(i)

\* the goroutines run on while one of them can take a step, and timers
\* fire; the kernel may block the write of c1 for ever, and nobody else's
LockFairSpec == LockSpec /\ WF_vars(LockProgress)

\* timers eventually fire, and a fired callback eventually gets the mutex
StoreFairSpec ==
    /\ StoreSpec
    /\ \A i \in 1..MaxTimers : WF_vars(TimerFire(i)) /\ WF_vars(TimerRun(i))

\* ------------------------------------------------------------ vocabulary
Writers == 1..Len(fm.tws)

OnDisk(st, k, rec) == \E i \in 1..Len(st.disk[k]) : st.disk[k][i] = rec

\* some goroutine is between the map removal and the closing section of w
Closing(w) ==
    \E t \in Threads : (pc[t] = "close" /\ ltw[t] = w) \/ w \in lset[t]

\* some goroutine holds w from getWriter and has not yet written
Writing(w) == \E t \in Threads : pc[t] = "write" /\ ltw[t] = w

InMap(w) == \E k \in Keys : fm.files[k] = w

NoIOError == ioBudget = MaxIOFail

\* handle sanity: a non-nil flushTimer names a live timer of that writer
HandleLive ==
    \A w \in Writers :
        fm.tws[w].flushTimer # NoTimer => fm.tws[w].flushTimer \in LiveTimers(fm, w)

\* ------------------------------------------------------------------ claims
\* C3: every log file has at most one pending (scheduled, not yet fired)
\* deferred-flush timer at any moment.
C3_AtMostOnePendingTimer ==
    \A w \in Writers : Cardinality(ArmedTimers(fm, w)) <= 1

\* C4: once the close of a file has completed (it is closed, no goroutine is
\* inside an operation on it, no timer of it is left), every record whose
\* WriteEvent returned nil is in the operating system's file.  Stated for
\* runs without any I/O error.
C4_AckedSurvivesClose ==
    \A a \in acked :
        LET w == a[2] IN
        (NoIOError /\ fm.tws[w].closed /\ ~Closing(w) /\ ~Writing(w)
            /\ LiveTimers(fm, w) = {})
        => OnDisk(fm, KeyOf(fm, w), a[1])

\* C5: a LogFile in the store's map is open; a LogFile that is not in the map,
\* and that no close operation is still working on, is closed.
C5_InMapIffOpen ==
    \A w \in Writers :
        /\ InMap(w) => ~fm.tws[w].closed
        /\ (~InMap(w) /\ ~Closing(w)) => fm.tws[w].closed

\* C6: when WriteEvent returns nil for a meta.* record, the file's buffer is
\* empty, the record is in the operating system's file, an fsync covers it,
\* and no flush timer is pending on the file.
C6_MetaFullyFlushed ==
    [][\A t \in Threads :
          (pc[t] = "write" /\ pc'[t] # "write" /\ isMeta(lev[t].event_type)
              /\ <<lev[t], ltw[t]>> \in acked' \ acked)
          => LET w == ltw[t]
                 k == KeyOf(fm, w)
             IN /\ fm'.tws[w].buffered = 0
                /\ OnDisk(fm', k, lev[t])
                /\ fm'.synced[k] = Len(fm'.disk[k])
                /\ ArmedTimers(fm', w) = {}]_vars

\* C6 without its last conjunct: what the meta branch of handleFlush does
\* achieve on its own
C6_MetaFlushedAndSynced ==
    [][\A t \in Threads :
          (pc[t] = "write" /\ pc'[t] # "write" /\ isMeta(lev[t].event_type)
              /\ <<lev[t], ltw[t]>> \in acked' \ acked)
          => LET w == ltw[t]
                 k == KeyOf(fm, w)
             IN /\ fm'.tws[w].buffered = 0
                /\ OnDisk(fm', k, lev[t])
                /\ fm'.synced[k] = Len(fm'.disk[k])]_vars

\* C7: whenever bytes remain in the buffer of a file that is open and has
\* seen no I/O error, one of its flush timers is pending or has fired; and
\* with timers that eventually fire and obtain the mutex the buffer is
\* eventually flushed (or the file closed, or an I/O error hit).
C7_BufferedHasTimer ==
    \A w \in Writers :
        (fm.tws[w].buffered > 0 /\ ~fm.tws[w].closed /\ ~fm.tws[w].err)
        => LiveTimers(fm, w) # {}

Unflushed(w) ==
    w <= Len(fm.tws) /\ fm.tws[w].buffered > 0 /\ ~fm.tws[w].closed /\ ~fm.tws[w].err

Log == fm.log

LogIdx == 1..Len(Log)

\* Start wrote meta.tab_created before any other record of the tab reached a file
CreatedFirst == Log # <<>> /\ Log[1].event_type = EventMetaTabCreated

\* C1: after a site change the last record of the file of (tab, old site) is
\* meta.site_changed, as long as the tab does not enter the old site again,
\* and the first record that reaches the file of (tab, new site) after the
\* change is meta.site_entered.  Stated for the runs in which the monitor had
\* written meta.tab_created first, so that only the event dispatch and the body
\* captures run beside HandleSiteChange.
C1_SiteChangeBrackets ==
    \A i \in LogIdx :
        (CreatedFirst /\ Log[i].event_type = EventMetaSiteChanged) =>
            LET old == Log[i].site
                new == Log[i].data.new_site
            IN
            /\ \A j \in (i + 1)..Len(Log) :
                   Log[j].site = old =>
                       \E k \in (i + 1)..j :
                           Log[k].event_type = EventMetaSiteEntered /\ Log[k].site = old
            /\ \A j \in (i + 1)..Len(Log) :
                   (Log[j].site = new /\ \A k \in (i + 1)..(j - 1) : Log[k].site # new)
                       => Log[j].event_type = EventMetaSiteEntered

\* C2: meta.tab_closed is the final record of the tab's stream: no record of
\* the tab reaches any file behind it.  Stated for the runs in which the
\* monitor had written meta.tab_created first, so that only the event dispatch
\* and the body captures run beside Stop.
C2_TabClosedIsFinal ==
    \A i \in LogIdx :
        (CreatedFirst /\ Log[i].event_type = EventMetaTabClosed) => i = Len(Log)

\* C8: when handleEvent has handled a main-frame frame-navigated event, the
\* tab's current site is the site of the event's URL and the page.navigate
\* record was routed to that site's file.
C8_NavigateRunsSiteChange ==
    [][(pc["dispatch"] = "ev_cs" /\ pc'["dispatch"] = "idle"
          /\ lev["dispatch"].event_type = EventPageNavigate)
       => /\ tm'.currentSite = ExtractSite(lev["dispatch"].data.url)
          /\ lev["dispatch"].site = ExtractSite(lev["dispatch"].data.url)]_vars

\* C9: in the tab's stream the site value changes between two adjacent records
\* exactly behind a meta.site_changed, whose next record carries the new site;
\* no record carrying the old site follows before the tab enters it again.
\* Stated for the runs in which meta.tab_created was the tab's first record.
C9_SiteSequence ==
    \A i \in LogIdx :
        (CreatedFirst /\ i < Len(Log)) =>
            /\ (Log[i].site # Log[i + 1].site) <=> (Log[i].event_type = EventMetaSiteChanged)
            /\ Log[i].event_type = EventMetaSiteChanged
                   => Log[i + 1].site = Log[i].data.new_site

\* C10: meta.tab_created is the first record written for the tab, and no
\* meta.site_changed, meta.site_entered or meta.tab_closed is written before
\* (or without) it.
C10_CreatedFirst ==
    /\ Log # <<>> => Log[1].event_type = EventMetaTabCreated
    /\ \A i \in LogIdx :
           Log[i].event_type \in {EventMetaSiteChanged, EventMetaSiteEntered, EventMetaTabClosed}
               => \E j \in 1..(i - 1) : Log[j].event_type = EventMetaTabCreated

\* C14: every record in the file of key (tab, site) has tab_id = tab and
\* site = site, whoever called WriteEvent.
C14_RecordMatchesFile ==
    \A k \in Keys :
        \A i \in 1..Len(fm.disk[k]) :
            fm.disk[k][i].tab_id = k[1] /\ fm.disk[k][i].site = k[2]

\* the session file and the files of both sites of the tab hold records,
\* among them one of the event dispatch
C14_Witness ==
    /\ fm.disk[SessionKey] # <<>>
    /\ fm.disk[fileKey(TabID, "a.com")] # <<>>
    /\ fm.disk[fileKey(TabID, "b.com")] # <<>>
    /\ \E i \in LogIdx : Log[i].event_type = EventPageNavigate

\* what a handler of the manager can change: the monitor map, the monitors,
\* the tab registry, the records written
handlerVars == <<mg, mons, reg, tabCounter, mlog>>

\* C17: a target-created for a target that has a monitor, a target-destroyed
\* and a target-info-changed for a target that has none are handled without
\* changing the monitor map, the monitors, the registry or any log.
C17_AnomaliesIgnored ==
    [][/\ (ListenerTargetCreated /\ Head(mq)[2] \in Monitored(mg))
            => UNCHANGED handlerVars
       /\ (ListenerTargetDestroyed /\ Head(mq)[2] \notin Monitored(mg))
            => UNCHANGED handlerVars
       /\ (ListenerTargetInfoChanged /\ Head(mq)[2] \notin Monitored(mg))
            => UNCHANGED handlerVars]_vars

\* a duplicate target-created and a target-destroyed for an unmonitored
\* target were both handled
C17_Witness ==
    /\ {"created", "destroyed"} \subseteq bg.ignored
    /\ bg.listener.pc = "idle"

\* C18: no tab the manager's own CDP session opened is treated as a user tab:
\* the monitor map holds no monitor for an anchor, of this connection or of
\* an earlier one, and no record is written for one.
C18_AnchorNeverMonitored ==
    \A a \in AnchorTargets :
        /\ mg.tabMonitors[a] = NoMon
        /\ \A r \in mlog : r[1] # a

\* the anchor of the connection in use has no monitor: what the filters of
\* connect do keep
CurrentAnchorNotMonitored ==
    mg.internalTargetID # NoTarget => mg.tabMonitors[mg.internalTargetID] = NoMon

\* monitor s is in the monitor map
InMonitorMap(s) == \E x \in PageTargets : mg.tabMonitors[x] = s

\* TabMonitor.Stop has run for the monitor that was in slot s
MonitorStopped(s) == mons[s] = FreeMonitor \/ mons[s].stopped

\* C15: a monitor of the monitor map whose target is destroyed or whose
\* browser connection is lost is eventually stopped. Stated for as long as
\* the context of Manager.Start is not cancelled.
C15_MonitorEventuallyStopped ==
    \A s \in 1..MaxMonitors :
        (/\ InMonitorMap(s)
         /\ ~ctxDone
         /\ mons[s].target \notin chrome.pages \/ mg.browserCtx = "done")
            ~> (MonitorStopped(s) \/ ctxDone)

\* C16: once Manager.Stop has returned the store holds no open log file, and
\* none is opened afterwards.
C16_NoOpenFileAfterStop ==
    pc["main"] = "stopped" =>
        /\ \A k \in Keys : fm.files[k] = NoWriter
        /\ \A w \in Writers : fm.tws[w].closed

\* the wait Start takes the i-th time in a row
ExpectedWait(i) == IF i = 1 THEN 5 ELSE IF i = 2 THEN 10 ELSE IF i = 3 THEN 20 ELSE 30

\* C19: the reconnect wait stays between 5 s and 30 s; the waits taken in a
\* row since the start or since the last successful connection are 5, 10, 20,
\* 30, 30, ... seconds, so the first wait after a connection is 5 s again.
C19_BackoffSequence ==
    /\ reconnectInterval <= mst.retryWait /\ mst.retryWait <= maxReconnectWait
    /\ \A i \in 1..Len(mst.waits) : mst.waits[i] = ExpectedWait(i)

\* four failed attempts (waits 5, 10, 20, 30), a connection, its loss, and
\* the wait after it
C19_Witness ==
    /\ mst.attempts = 5
    /\ mg.nconn = 1
    /\ mst.waits = <<5>>
    /\ mst.pc = "loop"

\* C20: with auto-launch off Manager.Start returns only when its context is
\* cancelled, never for a failed attempt or a lost connection, and once the
\* context is cancelled it eventually returns, wherever in the loop it is.
C20_StartReturnsOnCancel ==
    /\ [](mst.pc = "returned" => ctxDone)
    /\ (ctxDone ~> mst.pc = "returned")

\* Start is cancelled while connected, and has returned
C20_Witness ==
    /\ mst.pc = "returned"
    /\ mg.nconn = 2
    /\ mg.connected
\* meta.session_start is in the session file and covered by an fsync
SessionStartDurable ==
    \E i \in 1..Len(fm.disk[SessionKey]) :
        /\ fm.disk[SessionKey][i].event_type = EventMetaSessionStart
        /\ i <= fm.synced[SessionKey]

\* a monitor was started: the manager has handed the target to one, or a
\* meta.tab_created record is buffered or written
MonitorStarted ==
    \/ pc["start"] # "idle"
    \/ \E i \in LogIdx : Log[i].event_type = EventMetaTabCreated
    \/ \E a \in acked : a[1].event_type = EventMetaTabCreated

\* the WriteEvent of meta.session_start returned nil
SessionWriteAcked == \E a \in acked : a[1].event_type = EventMetaSessionStart

DispatchTypes == {EventNetworkRequest, EventNetworkResponse, EventNetworkFailure}

\* C22: in every file, the records of the monitor's event dispatch stand in
\* the order in which the dispatch handled their events.
C22_DispatchOrder ==
    \A k \in Keys :
        \A i, j \in 1..Len(fm.disk[k]) :
            (/\ i < j
             /\ fm.disk[k][i].event_type \in DispatchTypes
             /\ fm.disk[k][j].event_type \in DispatchTypes)
                => fm.disk[k][i].data.timestamp < fm.disk[k][j].data.timestamp

\* C23: in every file, network.request stands before the network.response,
\* network.response_body and network.failure of its request id, and
\* network.response before the network.response_body.
C23_RequestFirst ==
    \A k \in Keys :
        \A i, j \in 1..Len(fm.disk[k]) :
            LET a == fm.disk[k][i]
                b == fm.disk[k][j]
            IN
            (/\ a.event_type[1] = "network" /\ b.event_type[1] = "network"
             /\ a.data.request_id = b.data.request_id
             /\ \/ /\ a.event_type = EventNetworkRequest
                   /\ b.event_type \in {EventNetworkResponse, EventNetworkResponseBody,
                                        EventNetworkFailure}
                \/ /\ a.event_type = EventNetworkResponse
                   /\ b.event_type = EventNetworkResponseBody)
                => i < j

\* c1 is inside WriteEvent's critical section on a file of tab a
StalledOn(a) == pc["c1"] = "we_write" /\ fm.tws[ltw["c1"]].tabID = a

\* b has called WriteEvent for a file of tab a that is open
WritesOpenFile(b, a) ==
    /\ pc[b] = "gw_rlock"
    /\ lev[b].tab_id = a
    /\ fm.files[fileKey(lev[b].tab_id, lev[b].site)] # NoWriter

\* C24: while the write of one tab's goroutine is blocked inside the critical
\* section of that tab's file, a WriteEvent another goroutine has begun for
\* an open file of another tab runs to completion.
C24_OtherTabCompletes ==
    (StalledOn("tab-1") /\ WritesOpenFile("c2", "tab-2"))
        ~> (pc["c2"] = "idle" \/ ~StalledOn("tab-1"))

\* c1 holds the mutex of tab-1's file, the listener waits for that mutex in
\* CloseTab, and c2 has got the writer of tab-2's file, which an earlier
\* write had opened, and is inside its critical section
C24_Witness ==
    /\ StalledOn("tab-1")
    /\ pc["listener"] = "ct_twlock" /\ ltw["listener"] = ltw["c1"]
    /\ pc["c2"] = "we_write"
    /\ \E a \in acked : a[1].tab_id = "tab-2" /\ a[2] = ltw["c2"]

\* every event the browser sent is handled, the goroutines of the manager's
\* listener, of the dispatch and of the body capture are through with it,
\* and the monitor is where the browser's tab is
Quiescent ==
    /\ qMgr = <<>> /\ qTab = <<>>
    /\ pc["listener"] = "idle" /\ pc["dispatch"] = "idle" /\ pc["body"] = "idle"
    /\ pc["start"] = "start_wait"
    /\ tmMu = ""
    /\ tm.currentSite = ExtractSite(br.url)
    /\ tm.currentURL = br.url

CallbackRuns(i) == fm.timers[i].st = "fired" /\ fm'.timers[i].st = "free"

\* C26: the callback of a deferred-flush timer that runs after its file was
\* closed makes no I/O call on the closed file: it hands nothing to Write,
\* and the writer is as it was.
C26_CallbackAfterCloseNoOp ==
    [][\A i \in 1..MaxTimers :
          (CallbackRuns(i) /\ fm.tws[fm.timers[i].tw].closed)
              => /\ fm'.tws[fm.timers[i].tw].err = fm.tws[fm.timers[i].tw].err
                 /\ fm'.tws[fm.timers[i].tw].buffered = fm.tws[fm.timers[i].tw].buffered]_vars

\* two goroutines are at statements that access the same field of the
\* manager, one of them writing it
Conflict(t1, t2) ==
    \E a1 \in Accesses(t1), a2 \in Accesses(t2) :
        a1[1] = a2[1] /\ (a1[2] = "w" \/ a2[2] = "w")

\* C27: the manager's anchor target id, its monitor map and its connected
\* flag are read and written under m.mu only: no goroutine is at an access
\* to one of them without holding m.mu, and no two goroutines are at
\* conflicting accesses at once.
C27_AccessesUnderMutex ==
    /\ \A t \in MuThreads :
          Accesses(t) # {} => pc[t] \in MuLockHeldAt \cup MuRLockHeldAt
    /\ \A t1, t2 \in MuThreads : t1 # t2 => ~Conflict(t1, t2)

\* the locals of the goroutine that redacts
Redactor == lev["c1"]

RedactedTwice == pc["c1"] = "twice"

\* C28: redacting a header map or a body twice gives what redacting it once
\* gives, and a disabled redactor returns its input unchanged.
C28_RedactIdempotent ==
    /\ RedactedTwice => Redactor.twice = Redactor.once
    /\ (pc["c1"] # "idle" /\ ~Redactor.r.enabled) => Redactor.once = Redactor.input

\* an enabled redactor changed a body and a second pass left the result alone
C28_Witness ==
    /\ RedactedTwice
    /\ Redactor.op = "body"
    /\ Redactor.r.enabled
    /\ Redactor.once # Redactor.input
    /\ Parse(Redactor.input).ok

\* the name of a field, lowercased, contains a denied substring
Denied(name) ==
    \E i \in DOMAIN DefaultBodyFieldDenylist : Contains(ToLower(name), DefaultBodyFieldDenylist[i])

\* w is v with the value of every denied key, at any depth inside objects and
\* arrays, replaced by "[REDACTED]", and with every other value as it was
RECURSIVE IsRedactionOf(_, _)
IsRedactionOf(w, v) ==
    CASE v.k = "map" ->
           /\ w.k = "map"
           /\ DOMAIN w.m = DOMAIN v.m
           /\ \A key \in DOMAIN v.m :
                 IF Denied(key) THEN w.m[key] = StringValue(RedactedValue)
                 ELSE IsRedactionOf(w.m[key], v.m[key])
      [] v.k = "slice" ->
           /\ w.k = "slice"
           /\ Len(w.s) = Len(v.s)
           /\ \A i \in DOMAIN v.s : IsRedactionOf(w.s[i], v.s[i])
      [] OTHER -> w = v

\* C29: an enabled RedactBody turns a body that parses as JSON into JSON
\* in which every denied key, at any depth, has the value "[REDACTED]" and
\* every other value is the body's; any other body is returned unchanged.
C29_RedactBodyRedactsAndPreserves ==
    (pc["c1"] # "idle" /\ Redactor.op = "body" /\ Redactor.r.enabled) =>
        IF Parse(Redactor.input).ok
        THEN /\ Parse(Redactor.once).ok
             /\ IsRedactionOf(Parse(Redactor.once).v, Parse(Redactor.input).v)
        ELSE Redactor.once = Redactor.input

\* C30: sanitizing an extracted site leaves it as it is, sanitizing twice
\* gives what sanitizing once gives, and the site of the empty URL and of
\* a URL that does not parse is "unknown".
C30_SiteIdempotent ==
    /\ pc["c1"] = "twice" /\ lev["c1"].op \in {"SanitizeSiteName", "ExtractSite"}
          => lev["c1"].twice = lev["c1"].once
    /\ (pc["c1"] # "idle" /\ lev["c1"].op = "ExtractSite"
        /\ (lev["c1"].input = <<>> \/ ~urlParse(lev["c1"].input).ok))
          => lev["c1"].once = UnknownSiteText

\* handleEvent takes the loading-finished of request r from the target's events
FinishedDispatched(r) ==
    /\ pc["dispatch"] = "idle" /\ listening
    /\ qTab # <<>> /\ Head(qTab)[1] = "Network.loadingFinished" /\ Head(qTab)[2] = r
    /\ qTab' = Tail(qTab)

\* go tm.captureBody(r, ...) is started
FetchStarted(r) ==
    /\ pc["body"] = "idle" /\ pc'["body"] = "body_fetch"
    /\ lev'["body"].data.request_id = r

\* C31: a request enters the tracker only in the response-received of that
\* request, after its network.response was written; it leaves the tracker only
\* in the next loading-finished of that request, which starts one body fetch;
\* a loading-finished of a request that is not tracked starts none.
C31_TrackerLifetime ==
    [][\A r \in RequestIDs :
          /\ (r \notin tm.requestTracker /\ r \in tm'.requestTracker) =>
                /\ pc["dispatch"] = "resp_track"
                /\ lev["dispatch"].event_type = EventNetworkResponse
                /\ lev["dispatch"].data.request_id = r
          /\ (r \in tm.requestTracker /\ r \notin tm'.requestTracker) =>
                FinishedDispatched(r) /\ FetchStarted(r)
          /\ FinishedDispatched(r) =>
                IF r \in tm.requestTracker
                THEN r \notin tm'.requestTracker /\ FetchStarted(r)
                ELSE pc'["body"] = pc["body"] /\ tm' = tm]_vars

\* the body fetch of a request was started and its entry is gone
C31_Witness ==
    /\ pc["body"] = "body_fetch"
    /\ lev["body"].data.request_id \notin tm.requestTracker

\* HandleSiteChange is called with the URL of a targetInfoChanged whose site
\* is the monitor's current site
SameSiteChange ==
    /\ pc["listener"] = "idle"
    /\ qMgr # <<>> /\ Head(qMgr)[1] = "infoChanged"
    /\ TargetX \in m.tabMonitors
    /\ tmMu = ""
    /\ ExtractSite(Head(qMgr)[2]) = tm.currentSite
    /\ qMgr' = Tail(qMgr)

\* C32: HandleSiteChange with the current site sets current_url only: it
\* returns at once (no record is built or written, tm.mu is free again), the
\* store with its open files is as before, and so is current_site.
C32_SameSiteOnlyURL ==
    [][SameSiteChange =>
          /\ tm' = [tm EXCEPT !.currentURL = Head(qMgr)[2]]
          /\ tm'.currentSite = tm.currentSite
          /\ fm' = fm
          /\ lev' = lev /\ pc' = pc /\ tmMu' = ""]_vars

\* the tab went from one page of a site to another page of the same site
C32_Witness ==
    /\ tm.currentURL = urlA2
    /\ tm.currentSite = ExtractSite(urlA1)
    /\ br.nnav = 1
    /\ qMgr = <<>> /\ pc["listener"] = "idle"

\* client c's WriteEvent of a record that is not a lifecycle record returns nil
NonMetaWriteReturnsNil(c) ==
    /\ pc[c] = "write" /\ pc'[c] = "idle"
    /\ ~isMeta(lev[c].event_type)
    /\ <<lev[c], ltw[c]>> \notin acked
    /\ <<lev[c], ltw[c]>> \in acked'

\* C33: when WriteEvent returns nil for a record that is not a lifecycle
\* record, the file's buffer holds at most (capacity * 3) / 4 bytes: if the
\* Write left more than that, the buffer was flushed to the file without a
\* Sync and the writer has no timer; if not, the bytes stay buffered.
C33_ThreeQuarterThreshold ==
    [][\A c \in Clients :
          NonMetaWriteReturnsNil(c) =>
             LET w == ltw[c]
                 key == KeyOf(fm, w)
                 written == BufWrite(fm, w, lev[c], TRUE).st.tws[w].buffered
             IN  /\ fm'.tws[w].buffered <= (DefaultBufferSize * 3) \div 4
                 /\ IF written > (DefaultBufferSize * 3) \div 4
                    THEN /\ fm'.tws[w].buffered = 0
                         /\ fm'.disk[key][Len(fm'.disk[key])] = lev[c]
                         /\ fm'.synced = fm.synced
                         /\ fm'.tws[w].flushTimer = NoTimer
                         /\ ArmedTimers(fm', w) = {}
                    ELSE fm'.tws[w].buffered = written]_vars

\* the clients that took writer w out of the map and still have to run the
\* closing section on it
ClosersOf(w) ==
    {c \in Clients : (pc[c] = "close" /\ ltw[c] = w) \/ (pc[c] = "closeloop" /\ w \in lset[c])}

\* a writer that waits for its closing section has one closer, is not closed
\* and is out of the map; a closed writer is out of the map
ClosedOnce ==
    \A w \in DOMAIN fm.tws :
        /\ Cardinality(ClosersOf(w)) <= 1
        /\ (ClosersOf(w) # {} \/ fm.tws[w].closed) => \A k \in Keys : fm.files[k] # w
        /\ ClosersOf(w) # {} => ~fm.tws[w].closed

\* a client calls CloseTab for a key that has no entry: of the calls that
\* start from idle, the one that is over at once without an I/O error
CloseTabOfMissingKey(c) ==
    /\ pc[c] = "idle" /\ pc' = pc
    /\ nops' = nops + 1
    /\ ioBudget' = ioBudget
    /\ \A k \in StoreKeys : fm.files[k] = NoWriter

\* C34: CloseTab for a key that is not in the map returns nil and leaves the
\* store as it is; and no writer ever waits for more than one closing
\* section, or for one after it was closed, whatever CloseTab, CloseAllForTab
\* and Close calls run at once.
C34_CloseOnce ==
    [][/\ \A c \in Clients : CloseTabOfMissingKey(c) => (fm' = fm /\ ltw' = ltw /\ acked' = acked)
       /\ ClosedOnce /\ ClosedOnce']_vars

\* a file was written and closed, and a later call found no entry to close
C34_Witness ==
    \E w \in DOMAIN fm.tws :
        /\ fm.tws[w].closed
        /\ \A c \in Clients : pc[c] = "idle"
        /\ \A k \in Keys : fm.files[k] = NoWriter
        /\ Len(fm.tws) = 1 /\ nops >= 3

\* the keys of the tab that have a writer in the store's map
OpenFilesOf(tabID) == {k \in Keys : k[1] = tabID /\ fm.files[k] # NoWriter}

\* C35: the store holds at most one open file of the monitored tab, the
\* file of the tab's current site, and none once Stop has returned.
C35_OneOpenFilePerTab ==
    tm.tabID # "" =>
        /\ OpenFilesOf(tm.tabID) \subseteq {fileKey(tm.tabID, tm.currentSite)}
        /\ tm.cancelled => OpenFilesOf(tm.tabID) = {}

\* C36: TabMonitor.Stop runs at most once on any monitor, whichever of
\* handleTargetDestroyed, clearTabMonitors and Manager.Stop take it out of
\* the map, and so at most one meta.tab_closed is written for it.
C36_StopAtMostOnce ==
    \A s \in 1..MaxMonitors : mons[s].stops <= 1

C36_Witness ==
    /\ bg.stop.pc = "over"
    /\ \E k \in 1..MaxConnects : bg.cleanup[k].pc = "over"
    /\ bg.listener.pc = "idle"
    /\ \E s \in 1..MaxMonitors : mons[s].stops = 1

\* C37: the cleanup goroutine of a connection takes out of the map, and
\* stops, only monitors that were created under that connection.
C37_CleanupOwnMonitors ==
    \A e \in mlog : mons[e[2]].conn = e[1]

\* the goroutine cannot get the mutex it asks for
Blocked(t) ==
    \/ At(t, {"Lock"}) /\ pc[t] = "wait" /\ HoldersOf(HeadOp(t)[2]) # {}
    \/ At(t, {"RLock"}) /\ (WriteHolders(HeadOp(t)[2]) # {} \/ PendingOn(HeadOp(t)[2]) # {})

\* the goroutines whose step t needs before it gets its mutex
WaitsFor(t) ==
    IF HeadOp(t)[1] = "Lock" THEN HoldersOf(HeadOp(t)[2])
    ELSE WriteHolders(HeadOp(t)[2]) \cup PendingOn(HeadOp(t)[2])

\* the goroutines of S that wait for a goroutine of S
WaitingWithin(S) == {t \in S : Blocked(t) /\ WaitsFor(t) \cap S # {}}

\* the largest set of goroutines that wait on each other for ever
RECURSIVE Deadlocked(_)
Deadlocked(S) == IF WaitingWithin(S) = S THEN S ELSE Deadlocked(WaitingWithin(S))

\* C38: no set of goroutines waits on each other for ever over m.mu, the
\* registry mutex, tm.mu, tm.trackerMu, fm.mu and the tw.mu of the files,
\* and no goroutine ends its handler holding one of them.
C38_DeadlockFree ==
    /\ Deadlocked(Threads) = {}
    /\ \A t \in Threads : pc[t] = "idle" => lset[t] = {}

\* a chain of waits: t waits for h under tm.mu, h waits for a tw.mu
C38_Witness ==
    \E t, h \in Threads :
        /\ Blocked(t) /\ h \in WaitsFor(t) /\ HeadOp(t)[2] = TmMu
        /\ Blocked(h) /\ HeadOp(h)[2][1] = "tw.mu"
        /\ <<TmMu, "w">> \in lset[h]

\* the browser has sent the last event of request r and the monitor, which
\* still listens, has handled every event sent to it
RequestOver(r) ==
    /\ listening /\ br.state = "open"
    /\ br.net[r] = Len(NetStages)
    /\ qTab = <<>>
    /\ pc["dispatch"] = "idle"

\* C39: a request that is over, whether by loading-finished or by
\* loading-failed, has left the monitor's table: no entry stays for ever.
C39_TrackerEmptied ==
    \A r \in RequestIDs : RequestOver(r) => r \notin tm.requestTracker

\* the writers of key k whose file descriptor is open
OpenWriters(k) == {w \in 1..Len(fm.tws) : KeyOf(fm, w) = k /\ ~fm.tws[w].closed}

\* C40: every key has at most one writer, one open file descriptor with one
\* buffer, at any time, also when goroutines race for the first write.
C40_OneWriterPerKey ==
    \A k \in Keys : Cardinality(OpenWriters(k)) <= 1

====
